---- MODULE Spec2Model ----
(***************************************************************************)
(* A model of pysk8: the SK8 session (core.py), the per-IMU sensor state   *)
(* (imu.py) and the ExtAna sensor state (extana.py).                       *)
(*                                                                         *)
(* Numbers.  Sensor values and calibration coefficients are Python floats  *)
(* or ints.  They are modelled exactly as multiples of 1/Unit: the model   *)
(* value v stands for the Python number v/Unit.  Sequence numbers, loss    *)
(* counters, register bytes and times (seconds) are plain integers.        *)
(*                                                                         *)
(* Python attributes that do not exist yet (an AttributeError on read) are *)
(* the empty tuple for tuple-valued attributes and NoAttr for numbers.     *)
(* An exception raised by a method is the field exc of its result; the     *)
(* assignments made before the raise are kept, as in Python.               *)
(*                                                                         *)
(* Coroutines.  The async methods of SK8 suspend at every await of a       *)
(* transport call.  Each is an operator of the position pc it resumes at:  *)
(* it runs to its next await (Await: the request made) or to its end       *)
(* (Return).  A call is started by its action, the transport serves the    *)
(* request awaited (Serve) and the coroutine is resumed (Resume); the      *)
(* synchronous methods and the notification callbacks run in between.      *)
(***************************************************************************)
EXTENDS Integers, Sequences, FiniteSets, TLC

VARIABLES
    sk8,     \* the SK8 object: every self._xxx of core.py, the IMUData and ExtAnaData
    ble,     \* the transport and the device: connection, registers, subscriptions
    clock,   \* time.time(), in seconds
    call,    \* the step made last: the operation that ended or acted, with its arguments
             \* and its result, or the suspension ("await") or the service of a request
             \* ("transport") of the coroutine in flight
    hist,    \* history of the session: which streaming modes were entered, counters
    task     \* the coroutine of the session in flight: its call, the await it is
             \* suspended at, the request awaited and its reply

vars == <<sk8, ble, clock, call, hist, task>>

\* ------------------------------------------------------------------ bounds
Unit == 4
MaxTime == 1
MaxPackets == 2
MaxUpdates == 3
MaxConnects == 2
MaxSessions == 1
MaxGap == 4

\* ------------------------------------------------------------ constants
PACKET_PERIOD == 3
MAX_IMUS == 5
SENSOR_ALL == 7
SEQ_MOD == 256

NoAttr == -1

IMUS == 0 .. (MAX_IMUS - 1)

\* ------------------------------------------------------- number helpers
\* A 3-vector of Python ints as model numbers.
Fix(v) == <<v[1] * Unit, v[2] * Unit, v[3] * Unit>>

\* Python int(x) of a float: truncation toward zero; the result again as a model number.
PyInt(x) == IF x >= 0 THEN (x \div Unit) * Unit ELSE (-((-x) \div Unit)) * Unit

MapInt(v) == <<PyInt(v[1]), PyInt(v[2]), PyInt(v[3])>>

Ones == <<Unit, Unit, Unit>>
Zeros == <<0, 0, 0>>

\* ---------------------------------------------------------------- imu.py
\* calibration_data: None, or the mapping read from one section of the .ini file.
\* keys holds the sub-sensors whose fields ('accx_offset', ...) are present.
CalNone ==
    [is_none |-> TRUE, keys |-> {}, acc_scale |-> Zeros, acc_offset |-> Zeros,
     gyro_offset |-> Zeros, mag_scale |-> Zeros, mag_offset |-> Zeros]

CalSection(keys, as, ao, go, ms, mo) ==
    [is_none |-> FALSE, keys |-> keys, acc_scale |-> as, acc_offset |-> ao,
     gyro_offset |-> go, mag_scale |-> ms, mag_offset |-> mo]

\* IMUData.load_calibration
IMUData_load_calibration(d, calibration_data) ==
    IF calibration_data.is_none
    THEN [d |-> d, r |-> FALSE]
    ELSE
      LET d1 == IF "acc" \in calibration_data.keys
                THEN [d EXCEPT !.acc_scale = calibration_data.acc_scale,
                               !.acc_offsets = calibration_data.acc_offset]
                ELSE [d EXCEPT !.acc_scale = Ones, !.acc_offsets = Zeros]
          d2 == IF "gyro" \in calibration_data.keys
                THEN [d1 EXCEPT !.gyro_offsets = calibration_data.gyro_offset]
                ELSE [d1 EXCEPT !.gyro_offsets = Zeros]
          d3 == IF "mag" \in calibration_data.keys
                THEN [d2 EXCEPT !.mag_scale = calibration_data.mag_scale,
                                !.mag_offsets = calibration_data.mag_offset]
                ELSE [d2 EXCEPT !.mag_offsets = Ones, !.mag_scale = Zeros]
      IN [d |-> [d3 EXCEPT !._use_calibration = TRUE], r |-> TRUE]

\* IMUData.reset
IMUData_reset(d, now) ==
    LET d1 == [d EXCEPT !.acc = Zeros, !.mag = Zeros, !.gyro = Zeros,
                        !.acc_scale = Ones, !.acc_offsets = Zeros,
                        !.seq = 0, !._use_calibration = FALSE]
        d2 == IMUData_load_calibration(d1, d1._calibration_data).d
    IN [d2 EXCEPT !._packet_metadata = <<>>, !._packet_start = now,
                  !._packets_lost = 0]

\* IMUData.__init__: gyro_offsets, mag_offsets, mag_scale and timestamp are not
\* attributes of the object until load_calibration / update assign them.
IMUData_init(index, calibration_data, now) ==
    IMUData_reset(
        [index |-> index, _calibration_data |-> calibration_data,
         acc |-> Zeros, mag |-> Zeros, gyro |-> Zeros,
         acc_scale |-> Ones, acc_offsets |-> Zeros,
         gyro_offsets |-> <<>>, mag_offsets |-> <<>>, mag_scale |-> <<>>,
         seq |-> 0, timestamp |-> NoAttr, _use_calibration |-> FALSE,
         _packet_metadata |-> <<>>, _packet_start |-> now, _packets_lost |-> 0],
        now)

\* IMUData.get_sample_rate, as a multiple of 1/PACKET_PERIOD: the value returned is
\* -1, or Len(_packet_metadata) / PACKET_PERIOD; the numerator is given here.
IMUData_sample_rate_available(d, now) == ~(now - d._packet_start < PACKET_PERIOD)

\* get_sample_rate with the test of the period off by one boundary: no rate yet
\* when exactly PACKET_PERIOD seconds have elapsed.
IMUData_get_sample_rate_late(d, now) ==
    IF now - d._packet_start <= PACKET_PERIOD THEN [num |-> -1, den |-> 1]
    ELSE [num |-> Len(d._packet_metadata), den |-> PACKET_PERIOD]

\* IMUData.get_sample_rate: the value returned, as the fraction num / den.
IMUData_get_sample_rate(d, now) ==
    IF now - d._packet_start < PACKET_PERIOD THEN [num |-> -1, den |-> 1]
    ELSE [num |-> Len(d._packet_metadata), den |-> PACKET_PERIOD]

IMUData_get_sample_rate_num(d, now) == IMUData_get_sample_rate(d, now).num

RECURSIVE SumDropped(_)
SumDropped(md) == IF md = <<>> THEN 0 ELSE md[1][2] + SumDropped(Tail(md))

\* IMUData.get_packets_lost
IMUData_get_packets_lost(d, now) ==
    LET sample_rate == IMUData_get_sample_rate(d, now)
    IN IF sample_rate.num = -1 * sample_rate.den THEN -1 ELSE SumDropped(d._packet_metadata)

\* IMUData.get_total_packets_lost
IMUData_get_total_packets_lost(d) == d._packets_lost

\* IMUData.set_calibration
IMUData_set_calibration(d, state) == [d EXCEPT !._use_calibration = state]

\* IMUData.get_calibration
IMUData_get_calibration(d) == d._use_calibration

\* _get_cal with the offset and the scale taken for one another.
_get_cal_swapped(raw, offset, scale, ignore_cal) ==
    IF ignore_cal THEN raw
    ELSE [x \in 1..Len(raw) |-> ((raw[x] * offset[x]) \div Unit) - scale[x]]

\* IMUData._get_cal, for raw a vector of Python ints given as model numbers
\* (raw[x] * scale[x] is then a multiple of Unit * Unit, and the quotient is exact).
_get_cal(raw, offset, scale, ignore_cal) ==
    IF ignore_cal THEN raw
    ELSE [x \in 1..Len(raw) |-> ((raw[x] * scale[x]) \div Unit) - offset[x]]

\* The sequence-number arithmetic without the reduction modulo 256 of the
\* difference.
DroppedPacketsSigned(last, seq) ==
    IF last # -1
    THEN LET expected == (last + 1) % SEQ_MOD
         IN IF expected # seq THEN expected - seq ELSE 0
    ELSE 0

\* The sequence-number arithmetic with the subtraction the other way round: the
\* number of sequence numbers skipped between last and seq.
SkippedPackets(last, seq) ==
    IF last # -1
    THEN LET expected == (last + 1) % SEQ_MOD
         IN IF expected # seq THEN (seq - expected) % SEQ_MOD ELSE 0
    ELSE 0

\* The sequence-number arithmetic of IMUData.update (lines 104-109): the number of
\* dropped packets recorded for a packet seq that follows last sequence number last.
DroppedPackets(last, seq) ==
    IF last # -1
    THEN LET expected == (last + 1) % SEQ_MOD
         IN IF expected # seq THEN (expected - seq) % SEQ_MOD ELSE 0
    ELSE 0

\* The pruning with an if in place of the while: at most one entry is popped.
PruneMetadataOnce(md, now) ==
    IF md = <<>> THEN [md |-> md, exc |-> "IndexError"]
    ELSE IF now - md[Len(md)][1] > PACKET_PERIOD
         THEN [md |-> SubSeq(md, 1, Len(md) - 1), exc |-> "None"]
         ELSE [md |-> md, exc |-> "None"]

\* The while loop of IMUData.update (lines 114-115): pops the oldest entries while
\* they are older than PACKET_PERIOD; _packet_metadata[-1] of an empty list raises
\* IndexError.
RECURSIVE PruneMetadata(_, _)
PruneMetadata(md, now) ==
    IF md = <<>> THEN [md |-> md, exc |-> "IndexError"]
    ELSE IF now - md[Len(md)][1] > PACKET_PERIOD
         THEN PruneMetadata(SubSeq(md, 1, Len(md) - 1), now)
         ELSE [md |-> md, exc |-> "None"]

\* Lines 95-102 of IMUData.update: the stored vectors.  Reading gyro_offsets,
\* mag_offsets or mag_scale before any load_calibration assigned them raises
\* AttributeError, after self.acc (and self.gyro) have been assigned.
IMUData_store_vectors(d, acc, gyro, mag) ==
    IF ~d._use_calibration
    THEN [d |-> [d EXCEPT !.acc = Fix(acc), !.gyro = Fix(gyro), !.mag = Fix(mag)],
          exc |-> "None"]
    ELSE LET d1 == [d EXCEPT !.acc = MapInt(_get_cal(Fix(acc), d.acc_offsets, d.acc_scale, FALSE))]
         IN IF d1.gyro_offsets = <<>>
            THEN [d |-> d1, exc |-> "AttributeError"]
            ELSE LET d2 == [d1 EXCEPT !.gyro = _get_cal(Fix(gyro), d1.gyro_offsets, Ones, FALSE)]
                 IN IF d2.mag_offsets = <<>> \/ d2.mag_scale = <<>>
                    THEN [d |-> d2, exc |-> "AttributeError"]
                    ELSE [d |-> [d2 EXCEPT !.mag = MapInt(_get_cal(Fix(mag), d2.mag_offsets, d2.mag_scale, FALSE))],
                          exc |-> "None"]

\* Lines 104-115 of IMUData.update: loss tracking and the rolling window; now is
\* the value of time.time() read at line 113.
IMUData_track_loss(d, seq, timestamp, now) ==
    LET dropped == DroppedPackets(d.seq, seq)
        pruned == PruneMetadata(<<<<timestamp, dropped>>>> \o d._packet_metadata, now)
    IN [d |-> [d EXCEPT !._packets_lost = @ + dropped, !.seq = seq,
                        !.timestamp = timestamp, !._packet_metadata = pruned.md],
        exc |-> pruned.exc]

\* IMUData.update; acc, gyro, mag are the decoded vectors (Python ints).
IMUData_update(d, acc, gyro, mag, seq, timestamp, now) ==
    LET stored == IMUData_store_vectors(d, acc, gyro, mag)
    IN IF stored.exc # "None" THEN stored
       ELSE IMUData_track_loss(stored.d, seq, timestamp, now)

\* ------------------------------------------------------------- extana.py
\* ExtAnaData.__init__
ExtAnaData_init ==
    [ch1 |-> 0, ch2 |-> 0, temp |-> 0, seq |-> 0, timestamp |-> 0]

\* ExtAnaData.update: temp / 100.0, a float, kept exactly as hundredths of a degree
\* (the model number of field temp is in units of 1/100 after an update).
ExtAnaData_update(e, ch1, ch2, temp, seq, timestamp) ==
    [e EXCEPT !.ch1 = ch1, !.ch2 = ch2, !.temp = temp, !.seq = seq,
              !.timestamp = timestamp]

\* --------------------------------------------------------------- core.py
\* The characteristics a device may expose, by the name of their UUID constant.
UUIDS ==
    {"UUID_IMU_SELECTION", "UUID_SENSOR_SELECTION", "UUID_IMU_CCC", "UUID_EXTANA_CCC",
     "UUID_EXTANA_IMU_STREAMING", "UUID_EXTANA_IMU_STREAMING_TMP", "UUID_DEVICE_NAME",
     "UUID_HARDWARE_STATE", "UUID_HARDWARE_STATE_TMP"}

\* The longest device name, and the bits of the hardware state byte.
MAX_DEVICE_NAME_LEN == 20
EXT_HW_IMUS == 1
EXT_HW_EXTANA == 2

\* SK8.__init__ (load_calibration=True, the default).  _client is 0 for None, or the
\* number of the BleakClient object made by connect.  _uuid_chars maps a UUID to the
\* number of the client whose services gave the cached characteristic, 0 if not cached.
\* _name is "None" until get_device_name has read it.  __init__ assigns _hardware;
\* the attribute hardware that has_extana and has_imus read does not exist until
\* _check_hardware assigns it (<<>>: no such attribute, <<v>>: the value v).
SK8_init(now) ==
    [_imus |-> [x \in IMUS |-> IMUData_init(x, CalNone, now)],
     _extana_data |-> ExtAnaData_init,
     _enabled_imus |-> <<>>,
     _enabled_sensors |-> SENSOR_ALL,
     _packets |-> 0,
     _user_imu_callback |-> "None",
     _user_imu_callback_data |-> "None",
     _user_extana_callback |-> "None",
     _user_extana_callback_data |-> "None",
     _uuid_chars |-> [u \in UUIDS |-> 0],
     _client |-> 0,
     _load_calibration |-> TRUE,
     _name |-> "None",
     _hardware |-> -1,
     hardware |-> <<>>]

\* ------------------------------------------------------------- coroutines
\* The methods of SK8 declared `async def` are coroutines: they run until they
\* await a request to the transport, are suspended while the transport serves
\* it, and are resumed with its reply.  An operator that models one takes pc, the
\* await it is resumed from (0: the start of the method), and gives what the
\* method does up to its next await or its end:
\*   Await(s, pc, req): self is s, the coroutine awaits the request req and is
\*     resumed at pc;
\*   Return(s, r): self is s, the method returned r (or raised the exception r).
\* A request is <<kind, uuid, value>>.
Await(s, pc, req) ==
    [sk8 |-> s, out |-> "await", pc |-> pc, req |-> req, r |-> "None", loaded |-> {}]

Return(s, r) ==
    [sk8 |-> s, out |-> "return", pc |-> 0, req |-> <<>>, r |-> r, loaded |-> {}]

\* SK8._check_connected, and the test `self._client is None or not
\* self._client.is_connected` that opens most methods.
_check_connected(s, b) == s._client # 0 /\ b.is_connected

\* SK8._get_characteristic_from_uuid: ch is 0 for None, else the number of the
\* client the characteristic object came from.
_get_characteristic_from_uuid(s, b, uuid) ==
    IF ~_check_connected(s, b) THEN [sk8 |-> s, ch |-> 0]
    ELSE IF s._uuid_chars[uuid] # 0 THEN [sk8 |-> s, ch |-> s._uuid_chars[uuid]]
    ELSE IF uuid \notin b.chars THEN [sk8 |-> s, ch |-> 0]
    ELSE [sk8 |-> [s EXCEPT !._uuid_chars[uuid] = s._client], ch |-> s._client]

\* SK8._get_characteristic_handle_from_uuid (the handle of a characteristic is
\* identified with the characteristic).
_get_characteristic_handle_from_uuid(s, b, uuid) == _get_characteristic_from_uuid(s, b, uuid)

\* SK8._write_attribute: the request it awaits, <<>> when it returns without one
\* (not connected).  Its value is None in every case.
_write_attribute(s, b, uuid, data) ==
    IF ~_check_connected(s, b) THEN <<>> ELSE <<"write", uuid, data>>

\* SK8._read_attribute: the request it awaits, <<>> when it returns None without
\* one (not connected).  Its value is the reply of the transport.
_read_attribute(s, b, uuid) ==
    IF ~_check_connected(s, b) THEN <<>> ELSE <<"read", uuid, 0>>

\* The transport serving the requests of the session (the BleakClient methods
\* called at lines 811, 791, 300/465, 321/506, 232, 211): what the device and the
\* link become, events being the requests served during the operation in flight.
\* The device name is kept apart from the one-byte registers.
write_gatt_char(b, uuid, data) ==
    IF uuid = "UUID_DEVICE_NAME"
    THEN [b EXCEPT !.device_name = data, !.events = Append(@, <<"write", uuid, data>>)]
    ELSE [b EXCEPT !.regs[uuid] = data, !.events = Append(@, <<"write", uuid, data>>)]

\* The reply of BleakClient.read_gatt_char: the name, or the bytes of the hardware
\* state.
read_gatt_char(b, uuid) ==
    IF uuid = "UUID_DEVICE_NAME" THEN b.device_name ELSE <<b.hardware_state>>

\* BleakClient.start_notify / stop_notify for a characteristic the device has
\* (handed None they raise before any request: the callers below test that).
start_notify(b, uuid) ==
    [b EXCEPT !.notify = @ \cup {uuid}, !.events = Append(@, <<"start_notify", uuid, 0>>)]

stop_notify(b, uuid) ==
    [b EXCEPT !.notify = @ \ {uuid}, !.events = Append(@, <<"stop_notify", uuid, 0>>)]

\* imus_enabled |= (1 << imu) for imu in enabled_imus (lines 446-448).
RECURSIVE Pow2(_)
Pow2(n) == IF n = 0 THEN 1 ELSE 2 * Pow2(n - 1)

RECURSIVE SumPow2(_)
SumPow2(S) == IF S = {} THEN 0 ELSE LET x == CHOOSE y \in S : TRUE IN Pow2(x) + SumPow2(S \ {x})

\* The mask with the IMUs numbered from 1: bit i + 1 for IMU i.
ImuMaskShifted(enabled_imus) == SumPow2({enabled_imus[k] + 1 : k \in 1..Len(enabled_imus)})

ImuMask(enabled_imus) == SumPow2({enabled_imus[k] : k \in 1..Len(enabled_imus)})

\* 1 << imu with a negative imu: ValueError (negative shift count).
NegativeShift(enabled_imus) == \E k \in 1..Len(enabled_imus) : enabled_imus[k] < 0

\* enable_imu_streaming with the test of enabled_sensors == 0 made after the device
\* was configured instead of before.
enable_imu_streaming_late_test(s, b, enabled_imus, enabled_sensors, pc) ==
    LET at3 == Return([s EXCEPT !._enabled_imus = enabled_imus,
                                !._enabled_sensors = enabled_sensors], "True")
        at2(s1) ==
            LET c3 == _get_characteristic_from_uuid(s1, b, "UUID_IMU_CCC")
            IN IF enabled_sensors = 0 THEN Return(s1, "False")
               ELSE IF c3.ch = 0 THEN Return(c3.sk8, "BleakError")
               ELSE Await(c3.sk8, 3, <<"start_notify", "UUID_IMU_CCC", 0>>)
        at1(s1) ==
            LET w == _write_attribute(s1, b, "UUID_SENSOR_SELECTION", enabled_sensors)
            IN IF w = <<>> THEN at2(s1) ELSE Await(s1, 2, w)
        at0 ==
            IF ~_check_connected(s, b) THEN Return(s, "False")
            ELSE IF NegativeShift(enabled_imus) THEN Return(s, "ValueError")
            ELSE
              LET imus_enabled == ImuMask(enabled_imus)
                  c1 == _get_characteristic_handle_from_uuid(s, b, "UUID_IMU_SELECTION")
                  c2 == _get_characteristic_handle_from_uuid(c1.sk8, b, "UUID_SENSOR_SELECTION")
                  w == _write_attribute(c2.sk8, b, "UUID_IMU_SELECTION", imus_enabled)
              IN IF c1.ch = 0 \/ c2.ch = 0 THEN Return(c2.sk8, "False")
                 ELSE IF imus_enabled > 255 THEN Return(c2.sk8, "struct.error")
                 ELSE IF w = <<>> THEN at1(c2.sk8) ELSE Await(c2.sk8, 1, w)
    IN CASE pc = 0 -> at0 [] pc = 1 -> at1(s) [] pc = 2 -> at2(s) [] OTHER -> at3

\* enable_imu_streaming that takes a session already subscribed to the IMU
\* notifications as set up, and does nothing more.
enable_imu_streaming_once(s, b, enabled_imus, enabled_sensors, pc) ==
    LET at3 == Return([s EXCEPT !._enabled_imus = enabled_imus,
                                !._enabled_sensors = enabled_sensors], "True")
        at2(s1) ==
            LET c3 == _get_characteristic_from_uuid(s1, b, "UUID_IMU_CCC")
            IN IF c3.ch = 0 THEN Return(c3.sk8, "BleakError")
               ELSE Await(c3.sk8, 3, <<"start_notify", "UUID_IMU_CCC", 0>>)
        at1(s1) ==
            LET w == _write_attribute(s1, b, "UUID_SENSOR_SELECTION", enabled_sensors)
            IN IF w = <<>> THEN at2(s1) ELSE Await(s1, 2, w)
        at0 ==
            IF ~_check_connected(s, b) THEN Return(s, "False")
            ELSE IF "UUID_IMU_CCC" \in b.notify THEN Return(s, "True")
            ELSE IF NegativeShift(enabled_imus) THEN Return(s, "ValueError")
            ELSE IF enabled_sensors = 0 THEN Return(s, "False")
            ELSE
              LET imus_enabled == ImuMask(enabled_imus)
                  c1 == _get_characteristic_handle_from_uuid(s, b, "UUID_IMU_SELECTION")
                  c2 == _get_characteristic_handle_from_uuid(c1.sk8, b, "UUID_SENSOR_SELECTION")
                  w == _write_attribute(c2.sk8, b, "UUID_IMU_SELECTION", imus_enabled)
              IN IF c1.ch = 0 \/ c2.ch = 0 THEN Return(c2.sk8, "False")
                 ELSE IF imus_enabled > 255 THEN Return(c2.sk8, "struct.error")
                 ELSE IF w = <<>> THEN at1(c2.sk8) ELSE Await(c2.sk8, 1, w)
    IN CASE pc = 0 -> at0 [] pc = 1 -> at1(s) [] pc = 2 -> at2(s) [] OTHER -> at3

\* SK8.enable_imu_streaming.  at0 is the method up to its first await (line 462),
\* at1 from there to the second (line 463), at2 to the third (line 465), at3 the
\* rest (lines 467-469).  1 << imu raises ValueError for a negative imu (line 448,
\* before the test of enabled_sensors); struct.pack('B', v) raises struct.error
\* unless 0 <= v <= 255; start_notify raises when the device has no IMU
\* notification characteristic (it is handed None).
enable_imu_streaming(s, b, enabled_imus, enabled_sensors, pc) ==
    LET at3 == Return([s EXCEPT !._enabled_imus = enabled_imus,
                                !._enabled_sensors = enabled_sensors], "True")
        at2(s1) ==
            LET c3 == _get_characteristic_from_uuid(s1, b, "UUID_IMU_CCC")
            IN IF c3.ch = 0 THEN Return(c3.sk8, "BleakError")
               ELSE Await(c3.sk8, 3, <<"start_notify", "UUID_IMU_CCC", 0>>)
        at1(s1) ==
            LET w == _write_attribute(s1, b, "UUID_SENSOR_SELECTION", enabled_sensors)
            IN IF w = <<>> THEN at2(s1) ELSE Await(s1, 2, w)
        at0 ==
            IF ~_check_connected(s, b) THEN Return(s, "False")
            ELSE IF NegativeShift(enabled_imus) THEN Return(s, "ValueError")
            ELSE IF enabled_sensors = 0 THEN Return(s, "False")
            ELSE
              LET imus_enabled == ImuMask(enabled_imus)
                  c1 == _get_characteristic_handle_from_uuid(s, b, "UUID_IMU_SELECTION")
                  c2 == _get_characteristic_handle_from_uuid(c1.sk8, b, "UUID_SENSOR_SELECTION")
                  w == _write_attribute(c2.sk8, b, "UUID_IMU_SELECTION", imus_enabled)
              IN IF c1.ch = 0 \/ c2.ch = 0 THEN Return(c2.sk8, "False")
                 ELSE IF imus_enabled > 255 THEN Return(c2.sk8, "struct.error")
                 ELSE IF w = <<>> THEN at1(c2.sk8) ELSE Await(c2.sk8, 1, w)
    IN CASE pc = 0 -> at0 [] pc = 1 -> at1(s) [] pc = 2 -> at2(s) [] OTHER -> at3

\* SK8.enable_extana_streaming.  Line 285 awaits enable_imu_streaming([0], ...)
\* whatever include_imu is, and does not look at its result (an exception it raises
\* leaves enable_extana_streaming too): pc 0..3 are the awaits of that call, 4 the
\* write of the ExtAna register (lines 296/298), 5 start_notify (line 300).
enable_extana_streaming(s, b, include_imu, enabled_sensors, pc) ==
    LET at5 == LET s1 == [s EXCEPT !._enabled_sensors = enabled_sensors]
               IN Return(IF include_imu THEN [s1 EXCEPT !._enabled_imus = <<0>>] ELSE s1,
                         "True")
        at4(s1) ==
            LET c3 == _get_characteristic_from_uuid(s1, b, "UUID_EXTANA_CCC")
            IN IF c3.ch = 0 THEN Return(c3.sk8, "BleakError")
               ELSE Await(c3.sk8, 5, <<"start_notify", "UUID_EXTANA_CCC", 0>>)
        after_imu(s1) ==
            LET c1 == _get_characteristic_handle_from_uuid(s1, b, "UUID_EXTANA_IMU_STREAMING")
                c2 == _get_characteristic_handle_from_uuid(c1.sk8, b,
                                                          "UUID_EXTANA_IMU_STREAMING_TMP")
                flag == IF include_imu THEN 1 ELSE 0
                w == IF c1.ch # 0
                     THEN _write_attribute(c2.sk8, b, "UUID_EXTANA_IMU_STREAMING", flag)
                     ELSE _write_attribute(c2.sk8, b, "UUID_EXTANA_IMU_STREAMING_TMP", flag)
            IN IF c1.ch = 0 /\ c2.ch = 0 THEN Return(c2.sk8, "False")
               ELSE IF w = <<>> THEN at4(c2.sk8) ELSE Await(c2.sk8, 4, w)
        imu(e) == IF e.out = "await" \/ e.r \notin {"True", "False"} THEN e
                  ELSE after_imu(e.sk8)
    IN IF pc = 0 /\ ~_check_connected(s, b) THEN Return(s, "False")
       ELSE IF pc <= 3 THEN imu(enable_imu_streaming(s, b, <<0>>, enabled_sensors, pc))
       ELSE IF pc = 4 THEN at4(s)
       ELSE at5

\* SK8.disable_extana_streaming: the IMUData are reset once stop_notify (line 321)
\* has been served.
disable_extana_streaming(s, b, now, pc) ==
    IF pc = 0
    THEN IF ~_check_connected(s, b) THEN Return(s, "False")
         ELSE LET c == _get_characteristic_from_uuid(s, b, "UUID_EXTANA_CCC")
              IN IF c.ch = 0 THEN Return(c.sk8, "BleakError")
                 ELSE Await(c.sk8, 1, <<"stop_notify", "UUID_EXTANA_CCC", 0>>)
    ELSE Return([s EXCEPT !._imus = [x \in IMUS |-> IMUData_reset(@[x], now)],
                          !._enabled_imus = <<>>], "True")

\* SK8.disable_imu_streaming: the IMUData are reset once stop_notify (line 506)
\* has been served.
disable_imu_streaming(s, b, now, pc) ==
    IF pc = 0
    THEN IF ~_check_connected(s, b) THEN Return(s, "False")
         ELSE LET c == _get_characteristic_from_uuid(s, b, "UUID_IMU_CCC")
              IN IF c.ch = 0 THEN Return(c.sk8, "BleakError")
                 ELSE Await(c.sk8, 1, <<"stop_notify", "UUID_IMU_CCC", 0>>)
    ELSE Return([s EXCEPT !._imus = [x \in IMUS |-> IMUData_reset(@[x], now)]], "True")

\* SK8.get_enabled_imus, SK8.get_enabled_sensors
get_enabled_imus(s) == s._enabled_imus

get_enabled_sensors(s) == s._enabled_sensors

\* SK8.set_calibration: an empty list stands for every IMU; an index outside
\* 0..MAX_IMUS-1 is skipped.
set_calibration(s, enabled, imus) ==
    LET targets == IF Len(imus) = 0 THEN IMUS
                   ELSE {imus[k] : k \in 1..Len(imus)} \cap IMUS
    IN [s EXCEPT !._imus = [x \in IMUS |->
            IF x \in targets THEN IMUData_set_calibration(@[x], enabled) ELSE @[x]]]

\* SK8.get_calibration
get_calibration(s) == [x \in IMUS |-> IMUData_get_calibration(s._imus[x])]

\* SK8.load_calibration.  calibration_file is the parsed .ini file: the device name
\* of its sections (f'{name}_IMU{i}') and, per IMU, the section or CalNone when the
\* file has no section for it.  `success or load(...)` stops loading at the first
\* IMU that loaded: Python does not evaluate the right operand once success is True.
\* loaded is the set of the IMUs whose IMUData.load_calibration was called.
RECURSIVE LoadSections(_, _, _, _, _)
LoadSections(imus, file, i, success, loaded) ==
    IF i >= MAX_IMUS THEN [imus |-> imus, r |-> success, loaded |-> loaded]
    ELSE IF file.sections[i].is_none \/ success
         THEN LoadSections(imus, file, i + 1, success, loaded)
         ELSE LET l == IMUData_load_calibration(imus[i], file.sections[i])
              IN LoadSections([imus EXCEPT ![i] = l.d], file, i + 1, l.r, loaded \cup {i})

load_calibration(s, b, calibration_file) ==
    IF ~_check_connected(s, b) THEN [sk8 |-> s, r |-> "False", loaded |-> {}]
    ELSE IF calibration_file.name # s._name THEN [sk8 |-> s, r |-> "False", loaded |-> {}]
    ELSE LET l == LoadSections(s._imus, calibration_file, 0, FALSE, {})
         IN [sk8 |-> [s EXCEPT !._imus = l.imus], r |-> IF l.r THEN "True" ELSE "False",
             loaded |-> l.loaded]

\* SK8.get_device_name: the cached name, or the name read from the device (line
\* 554: the characteristic is cached before the read, _name assigned after it).
\* reply is the value of the read awaited.
get_device_name(s, b, cached, pc, reply) ==
    IF pc = 0
    THEN IF ~_check_connected(s, b) THEN Return(s, "None")
         ELSE IF cached /\ s._name # "None" THEN Return(s, s._name)
         ELSE LET c == _get_characteristic_handle_from_uuid(s, b, "UUID_DEVICE_NAME")
                  rd == _read_attribute(c.sk8, b, "UUID_DEVICE_NAME")
              IN IF c.ch = 0 THEN Return(c.sk8, "None")
                 ELSE IF rd = <<>> THEN Return(c.sk8, "None")
                 ELSE Await(c.sk8, 1, rd)
    ELSE Return([s EXCEPT !._name = reply], reply)

\* SK8.set_device_name.  The value of _write_attribute is None, so the branch that
\* assigns _name and returns True is never taken; the write itself reaches the device.
set_device_name(s, b, new_name, pc) ==
    LET written == "None"
        at1(s1) == IF written # "None" THEN Return([s1 EXCEPT !._name = new_name], "True")
                   ELSE Return(s1, "False")
    IN IF pc = 0
       THEN IF ~_check_connected(s, b) THEN Return(s, "False")
            ELSE IF Len(new_name) > MAX_DEVICE_NAME_LEN THEN Return(s, "False")
            ELSE IF Len(new_name) = 0 THEN Return(s, "False")
            ELSE LET c == _get_characteristic_handle_from_uuid(s, b, "UUID_DEVICE_NAME")
                     w == _write_attribute(c.sk8, b, "UUID_DEVICE_NAME", new_name)
                 IN IF c.ch = 0 THEN Return(c.sk8, "False")
                    ELSE IF w = <<>> THEN at1(c.sk8) ELSE Await(c.sk8, 1, w)
       ELSE at1(s)

\* a & b of Python for 0 <= b < 256 and a an int of any sign (two's complement).
RECURSIVE NatAnd(_, _)
NatAnd(a, b) ==
    IF a = 0 \/ b = 0 THEN 0
    ELSE 2 * NatAnd(a \div 2, b \div 2) + (IF a % 2 = 1 /\ b % 2 = 1 THEN 1 ELSE 0)

PyAnd(a, b) == NatAnd(a % 256, b)

\* SK8._check_hardware: -1 when neither hardware state characteristic is found or
\* the read gives None, else the first byte of the reply of the read awaited
\* (lines 694/696), kept in self.hardware.
_check_hardware(s, b, pc, reply) ==
    IF pc = 0
    THEN LET c1 == _get_characteristic_handle_from_uuid(s, b, "UUID_HARDWARE_STATE")
             c2 == _get_characteristic_handle_from_uuid(c1.sk8, b, "UUID_HARDWARE_STATE_TMP")
             uuid == IF c1.ch # 0 THEN "UUID_HARDWARE_STATE" ELSE "UUID_HARDWARE_STATE_TMP"
             rd == _read_attribute(c2.sk8, b, uuid)
         IN IF c1.ch = 0 /\ c2.ch = 0 THEN Return(c2.sk8, -1)
            ELSE IF rd = <<>> THEN Return(c2.sk8, -1)
            ELSE Await(c2.sk8, 1, rd)
    ELSE Return([s EXCEPT !.hardware = <<reply[1]>>], reply[1])

\* The body shared by SK8.has_extana and SK8.has_imus (lines 719-723, 738-742):
\* reading self.hardware before _check_hardware assigned it raises AttributeError.
has_hardware(s, b, cached, bit, pc, reply) ==
    LET result == _check_hardware(s, b, pc, reply)
        checked == IF result.out = "await" THEN result
                   ELSE Return(result.sk8,
                               IF PyAnd(result.r, bit) # 0 THEN "True" ELSE "False")
    IN IF pc # 0 THEN checked
       ELSE IF cached /\ s.hardware = <<>> THEN Return(s, "AttributeError")
       ELSE IF cached /\ s.hardware[1] # -1
       THEN Return(s, IF PyAnd(s.hardware[1], bit) # 0 THEN "True" ELSE "False")
       ELSE checked

\* SK8.has_extana
has_extana(s, b, cached, pc, reply) == has_hardware(s, b, cached, EXT_HW_EXTANA, pc, reply)

\* SK8.has_imus
has_imus(s, b, cached, pc, reply) == has_hardware(s, b, cached, EXT_HW_IMUS, pc, reply)

\* SK8.set_imu_callback
set_imu_callback(s, callback, data) ==
    [s EXCEPT !._user_imu_callback = callback, !._user_imu_callback_data = data]

\* SK8.set_extana_callback
set_extana_callback(s, callback, data) ==
    [s EXCEPT !._user_extana_callback = callback, !._user_extana_callback_data = data]

\* SK8.connect: the scan is awaited (lines 195/198; reply "None": no device
\* found); then a new BleakClient, numbered client, replaces self._client (line
\* 210, whether or not a client was there) and its connect() is awaited (line
\* 211); then the calibration is loaded.  calibration_file is the sk8calib.ini of
\* the working directory.
connect(s, b, client, calibration_file, pc, reply) ==
    CASE pc = 0 -> Await(s, 1, <<"scan", "", 0>>)
      [] pc = 1 -> IF reply = "None" THEN Return(s, "False")
                   ELSE Await([s EXCEPT !._client = client], 2, <<"connect", "", client>>)
      [] OTHER -> LET l == IF s._load_calibration
                           THEN load_calibration(s, b, calibration_file)
                           ELSE [sk8 |-> s, r |-> "False", loaded |-> {}]
                  IN [Return(l.sk8, "True") EXCEPT !.loaded = l.loaded]

\* SK8.disconnect: BleakClient.disconnect (line 232) is awaited when there is a
\* client; its value is True; _packets is reset after it.
disconnect(s, b, pc, reply) ==
    IF pc = 0
    THEN IF s._client # 0 THEN Await(s, 1, <<"disconnect", "", 0>>)
         ELSE Return(s, "False")
    ELSE Return([s EXCEPT !._packets = 0], reply)

\* SK8._imu_callback.  data is the notification: ok tells whether the buffer has the
\* length of IMU_DATA_STRUCT (unpack raises struct.error otherwise), and acc, gyro,
\* mag, imu, seq are the unpacked fields.  calls is the list of the invocations of
\* the user's IMU callback made so far; seen is the seq that get_imu(imu) holds while
\* the callback runs.
_imu_callback(s, calls, data, now) ==
    IF ~data.ok THEN [sk8 |-> s, calls |-> calls, exc |-> "struct.error"]
    ELSE
      LET timestamp == now IN
      IF data.imu \notin IMUS THEN [sk8 |-> s, calls |-> calls, exc |-> "IndexError"]
      ELSE
        LET u == IMUData_update(s._imus[data.imu], data.acc, data.gyro, data.mag,
                                data.seq, timestamp, now)
            s1 == [s EXCEPT !._imus[data.imu] = u.d]
        IN IF u.exc # "None" THEN [sk8 |-> s1, calls |-> calls, exc |-> u.exc]
           ELSE IF s1._user_imu_callback # "None"
                THEN [sk8 |-> s1,
                      calls |-> Append(calls, [acc |-> data.acc, gyro |-> data.gyro,
                                               mag |-> data.mag, imu |-> data.imu,
                                               seq |-> data.seq, timestamp |-> timestamp,
                                               data |-> s1._user_imu_callback_data,
                                               seen |-> s1._imus[data.imu].seq]),
                      exc |-> "None"]
                ELSE [sk8 |-> s1, calls |-> calls, exc |-> "None"]

\* _extana_callback with a decoding that does not insist on the length of the
\* buffer (the fields are taken from whatever bytes there are).
_extana_callback_lenient(s, calls, data, now) ==
    LET timestamp == now
        s1 == [s EXCEPT !._extana_data =
                  ExtAnaData_update(@, data.ch1, data.ch2, data.temp, data.seq, timestamp)]
    IN IF s1._user_extana_callback # "None"
       THEN [sk8 |-> s1,
             calls |-> Append(calls, [ch1 |-> data.ch1, ch2 |-> data.ch2,
                                      temp |-> data.temp, seq |-> data.seq,
                                      timestamp |-> timestamp,
                                      data |-> s1._user_extana_callback_data,
                                      seen |-> s1._extana_data.seq]),
             exc |-> "None"]
       ELSE [sk8 |-> s1, calls |-> calls, exc |-> "None"]

\* SK8._extana_callback.  data is the notification: ok tells whether the buffer has
\* the length of EXTANA_DATA_STRUCT (unpack raises struct.error otherwise), and ch1,
\* ch2, temp, seq are the unpacked fields.  calls is the list of the invocations of
\* the user's ExtAna callback made so far; seen is the seq that get_extana() holds
\* while the callback runs.
_extana_callback(s, calls, data, now) ==
    IF ~data.ok THEN [sk8 |-> s, calls |-> calls, exc |-> "struct.error"]
    ELSE
      LET timestamp == now
          s1 == [s EXCEPT !._extana_data =
                    ExtAnaData_update(@, data.ch1, data.ch2, data.temp, data.seq, timestamp)]
      IN IF s1._user_extana_callback # "None"
         THEN [sk8 |-> s1,
               calls |-> Append(calls, [ch1 |-> data.ch1, ch2 |-> data.ch2,
                                        temp |-> data.temp, seq |-> data.seq,
                                        timestamp |-> timestamp,
                                        data |-> s1._user_extana_callback_data,
                                        seen |-> s1._extana_data.seq]),
               exc |-> "None"]
         ELSE [sk8 |-> s1, calls |-> calls, exc |-> "None"]

\* SK8.get_received_packets, SK8.reset_received_packets
get_received_packets(s) == s._packets

reset_received_packets(s) == [s EXCEPT !._packets = 0]

\* ------------------------------------------------------------ environment
\* What the callers, the device and the calibration files of the model do.
ImuLists == {<<0>>, <<0, 2>>}
SensorMasks == {0, 3, SENSOR_ALL}
PacketImus == {0, 2}
SeqValues == {5, 6, 8}

\* The decoded sensor vectors of a notification.
Payload1 == [acc |-> <<3, -3, 10>>, gyro |-> <<1, -2, 3>>, mag |-> <<10, 20, -30>>]
Payload2 == [acc |-> <<-7, 0, 1>>, gyro |-> <<0, 4, -4>>, mag |-> <<5, -5, 0>>]

Payloads == {Payload1, Payload2}

Packet(ok, p, imu, seq) ==
    [ok |-> ok, acc |-> p.acc, gyro |-> p.gyro, mag |-> p.mag, imu |-> imu, seq |-> seq]

NoData == Packet(FALSE, [acc |-> Zeros, gyro |-> Zeros, mag |-> Zeros], -1, -1)

\* The decoded fields of an ExtAna notification.
ExtanaPayloads == {[ch1 |-> 100, ch2 |-> 200, temp |-> 2150]}
ExtanaSeqs == {1, 2, 4}

ExtanaPacket(ok, p, seq) ==
    [ok |-> ok, ch1 |-> p.ch1, ch2 |-> p.ch2, temp |-> p.temp, seq |-> seq]

\* The sections of the calibration files: one with the fields of every sub-sensor,
\* one without the magnetometer fields, one without the accelerometer fields.
SecFull ==
    CalSection({"acc", "gyro", "mag"}, <<Unit + 1, Unit + 1, Unit>>, <<0, 0, Unit>>,
               <<2, 0, -Unit>>, <<Unit, 2 * Unit, Unit>>, <<3, 0, 0>>)

SecNoMag ==
    CalSection({"acc", "gyro"}, <<Unit + 1, Unit + 1, Unit>>, <<0, 0, Unit>>,
               <<2, 0, -Unit>>, Zeros, Zeros)

SecNoAcc ==
    CalSection({"gyro", "mag"}, Zeros, Zeros,
               <<2, 0, -Unit>>, <<Unit, 2 * Unit, Unit>>, <<3, 0, 0>>)

CalFile(name, s0, s2) ==
    [name |-> name,
     sections |-> [i \in IMUS |-> IF i = 0 THEN s0 ELSE IF i = 2 THEN s2 ELSE CalNone]]

CalFiles ==
    {CalFile("SK8", SecFull, SecNoMag), CalFile("SK8", SecNoMag, CalNone),
     CalFile("SK8", CalNone, SecNoAcc)}

\* The working directory's sk8calib.ini, read by connect.
DefaultCalFile == CalFile("SK8", SecFull, SecNoMag)

\* The characteristics of the devices of the model: every one; none of the two
\* ExtAna configuration characteristics; no IMU selection characteristic.
DeviceProfiles ==
    {UUIDS,
     UUIDS \ {"UUID_EXTANA_IMU_STREAMING", "UUID_EXTANA_IMU_STREAMING_TMP"},
     UUIDS \ {"UUID_IMU_SELECTION"}}

\* Devices for the name and hardware state operations: every characteristic; the
\* hardware state under its second UUID only; no hardware state characteristic;
\* no device name characteristic.
DeviceProfilesHw ==
    {UUIDS,
     UUIDS \ {"UUID_HARDWARE_STATE"},
     UUIDS \ {"UUID_HARDWARE_STATE", "UUID_HARDWARE_STATE_TMP"},
     UUIDS \ {"UUID_DEVICE_NAME"}}

\* The hardware state bytes of the devices, and the names given to set_device_name
\* (empty, 5, 20 and 21 characters).
HardwareStates == {0, EXT_HW_IMUS, EXT_HW_EXTANA, EXT_HW_IMUS + EXT_HW_EXTANA}
NewNames == {"", "SK8-B", "SK8-0123456789abcdef", "SK8-0123456789abcdefg"}

BitSet(mask, i) == (mask \div Pow2(i)) % 2 = 1

\* ------------------------------------------------------------------ state
MkCall(op, r, imus, sensors, flag, data) ==
    [op |-> op, r |-> r, imus |-> imus, sensors |-> sensors, flag |-> flag, data |-> data]

\* The transport at the start of an operation: events lists what the operation does.
Begin(b) == [b EXCEPT !.events = <<>>]

\* No coroutine of the session is in flight.
NoTask == [op |-> "none"]

\* The calls of the async methods are made one at a time: a call is made when no
\* coroutine of the session is in flight.
Idle == task.op = "none"

\* The history kept beside the program's state:
\*   imu_active / extana_active: an enable_imu_streaming / enable_extana_streaming
\*     succeeded and no successful disable (or disconnect) followed;
\*   imu_disabled: a disable_imu_streaming succeeded and no enable succeeded since;
\*   delivered: the IMU notifications delivered since the IMUData were constructed
\*     or last reset, each with whether a user callback was registered;
\*   imu_calls: the invocations of the user's IMU callback over the same period;
\*   extana_calls: the invocations of the user's ExtAna callback;
\*   section: per IMU, the calibration section last loaded into it (CalNone: never);
\*   reset_at: the time of the construction or of the last reset of the IMUData
\*     (the clock stands at 0 wherever an SK8 operation resets them).
InitHist ==
    [imu_active |-> FALSE, extana_active |-> FALSE, imu_disabled |-> FALSE,
     npackets |-> 0, nconnects |-> 0, nupdates |-> 0,
     delivered |-> <<>>, imu_calls |-> <<>>, extana_calls |-> <<>>,
     section |-> [i \in IMUS |-> CalNone], reset_at |-> 0]

Recorded(h, file, loaded) ==
    [h EXCEPT !.section = [i \in IMUS |-> IF i \in loaded THEN file.sections[i] ELSE @[i]]]

\* A constructed SK8 and a device that is one of profiles with one of the hardware
\* state bytes hws.
InitWith(profiles, hws) ==
    /\ clock = 0
    /\ sk8 = SK8_init(0)
    /\ \E chars \in profiles, hw \in hws :
         ble = [is_connected |-> FALSE, chars |-> chars,
                regs |-> [u \in UUIDS |-> NoAttr], notify |-> {}, events |-> <<>>,
                device_name |-> "SK8", hardware_state |-> hw]
    /\ call = MkCall("init", "None", <<>>, -1, FALSE, NoData)
    /\ hist = InitHist
    /\ task = NoTask

Init == InitWith(DeviceProfiles, {EXT_HW_IMUS + EXT_HW_EXTANA})

\* ------------------------------------------------------------ scheduling
\* The transport between two operations of an idle session starts a new list of
\* events; while a coroutine is in flight the list is the one of that coroutine.
Aside == IF Idle THEN Begin(ble) ELSE ble

\* The transport when the coroutine hands it the request req: the BleakClient
\* made by connect (line 210) is a new object, not connected yet.
Requested(b, req) ==
    IF req[1] = "connect" THEN [b EXCEPT !.is_connected = FALSE] ELSE b

\* The replies the transport can give to req: the scan finds the device or does
\* not; a read gives the value of the characteristic; disconnect gives True.
Replies(b, req) ==
    CASE req[1] = "scan" -> {"found", "None"}
      [] req[1] = "read" -> {read_gatt_char(b, req[2])}
      [] req[1] = "disconnect" -> {"True"}
      [] OTHER -> {"None"}

\* The transport and the device once req is served.  disconnect drops the link
\* and with it every notification subscription.  connect opens the link of the
\* new client; the client it replaced, if it was connected, was never
\* disconnected: the subscriptions made through it are kept by the device or
\* dropped, according to the BLE stack.
Served(b, req) ==
    CASE req[1] = "write" -> {write_gatt_char(b, req[2], req[3])}
      [] req[1] = "read" -> {[b EXCEPT !.events = Append(@, req)]}
      [] req[1] = "start_notify" -> {start_notify(b, req[2])}
      [] req[1] = "stop_notify" -> {stop_notify(b, req[2])}
      [] req[1] = "disconnect" ->
           {[b EXCEPT !.is_connected = FALSE, !.notify = {}, !.events = Append(@, req)]}
      [] req[1] = "connect" ->
           {[b EXCEPT !.is_connected = TRUE, !.notify = n] : n \in {{}, b.notify}}
      [] OTHER -> {b}

\* The coroutine t run from its pc to its next await or to its end, on the session
\* s and the transport b at the time now; nconnects numbers the clients made so far.
Run(t, s, b, now, nconnects) ==
    LET c == t.call
    IN CASE c.op = "connect" ->
              connect(s, b, nconnects + 1, DefaultCalFile, t.pc, t.reply)
         [] c.op = "disconnect" -> disconnect(s, b, t.pc, t.reply)
         [] c.op = "enable_imu_streaming" ->
              enable_imu_streaming(s, b, c.imus, c.sensors, t.pc)
         [] c.op = "enable_extana_streaming" ->
              enable_extana_streaming(s, b, c.flag, c.sensors, t.pc)
         [] c.op = "disable_imu_streaming" -> disable_imu_streaming(s, b, now, t.pc)
         [] c.op = "disable_extana_streaming" -> disable_extana_streaming(s, b, now, t.pc)
         [] c.op = "get_device_name" -> get_device_name(s, b, c.flag, t.pc, t.reply)
         [] c.op = "set_device_name" -> set_device_name(s, b, c.data.name, t.pc)
         [] c.op = "has_extana" -> has_extana(s, b, c.flag, t.pc, t.reply)
         [] OTHER -> has_imus(s, b, c.flag, t.pc, t.reply)

\* The history once the call c has ended with the result res.
Finished(h, c, res) ==
    CASE c.op = "connect" /\ res.r = "True" ->
              Recorded([h EXCEPT !.nconnects = @ + 1], DefaultCalFile, res.loaded)
      [] c.op = "disconnect" /\ res.r = "True" ->
              [h EXCEPT !.imu_active = FALSE, !.extana_active = FALSE]
      [] c.op = "enable_imu_streaming" ->
              [h EXCEPT !.imu_active = @ \/ res.r = "True",
                        !.imu_disabled = @ /\ res.r # "True"]
      [] c.op = "enable_extana_streaming" ->
              [h EXCEPT !.extana_active = @ \/ res.r = "True",
                        !.imu_disabled = @ /\ res.r # "True"]
      [] c.op = "disable_imu_streaming" /\ res.r = "True" ->
              [h EXCEPT !.imu_active = FALSE, !.imu_disabled = TRUE,
                        !.delivered = <<>>, !.imu_calls = <<>>]
      [] c.op = "disable_extana_streaming" /\ res.r = "True" ->
              [h EXCEPT !.imu_active = FALSE, !.extana_active = FALSE,
                        !.delivered = <<>>, !.imu_calls = <<>>]
      [] OTHER -> h

\* The coroutine t runs on the transport b until it awaits a request, which the
\* transport receives, or ends, which ends the call.
Advance(t, b) ==
    \E res \in {Run(t, sk8, b, clock, hist.nconnects)} :
       /\ sk8' = res.sk8
       /\ IF res.out = "await"
          THEN /\ task' = [t EXCEPT !.pc = res.pc, !.req = res.req, !.served = FALSE]
               /\ ble' = Requested(b, res.req)
               /\ call' = MkCall("await", "None", <<>>, -1, FALSE, NoData)
               /\ UNCHANGED hist
          ELSE /\ task' = NoTask
               /\ ble' = b
               /\ call' = [t.call EXCEPT !.r = res.r]
               /\ hist' = Finished(hist, t.call, res)
       /\ UNCHANGED clock

\* What a call can change of the streaming and device state, as it stands on the
\* session s and the transport b.
Snapshot(s, b) ==
    [_enabled_imus |-> s._enabled_imus, _enabled_sensors |-> s._enabled_sensors,
     _name |-> s._name, hardware |-> s.hardware,
     is_connected |-> _check_connected(s, b), regs |-> b.regs, notify |-> b.notify]

\* An async method of SK8 is called with the arguments of c: it runs to its first
\* await, or to its end.  before keeps the state the call was made in.
Start(c) ==
    Advance([op |-> c.op, call |-> c, pc |-> 0, req |-> <<>>, served |-> FALSE,
             reply |-> "None", before |-> Snapshot(sk8, ble)],
            Begin(ble))

\* The transport serves the request the coroutine in flight awaits.
Serve ==
    /\ ~Idle
    /\ ~task.served
    /\ \E b \in Served(ble, task.req), reply \in Replies(ble, task.req) :
         /\ ble' = b
         /\ task' = [task EXCEPT !.served = TRUE, !.reply = reply]
    /\ call' = MkCall("transport", "None", <<>>, -1, FALSE, NoData)
    /\ UNCHANGED <<sk8, clock, hist>>

\* The event loop resumes the coroutine in flight with the reply of the transport.
Resume ==
    /\ ~Idle
    /\ task.served
    /\ Advance(task, ble)

\* ---------------------------------------------------------------- actions
\* The calls of the async methods.  connect() makes no test for a connection
\* that exists.
Connect(max) ==
    /\ Idle
    /\ hist.nconnects < max
    /\ Start(MkCall("connect", "None", <<>>, -1, FALSE, NoData))

Disconnect ==
    /\ Idle
    /\ Start(MkCall("disconnect", "None", <<>>, -1, FALSE, NoData))

\* The flag of the call records whether IMU streaming was active when it was made.
EnableImuStreaming(lists, masks) ==
    /\ Idle
    /\ \E imus \in lists, sensors \in masks :
         Start(MkCall("enable_imu_streaming", "None", imus, sensors, hist.imu_active, NoData))

\* The flag of the call is include_imu.
EnableExtanaStreaming(masks) ==
    /\ Idle
    /\ \E include_imu \in BOOLEAN, sensors \in masks :
         Start(MkCall("enable_extana_streaming", "None", <<>>, sensors, include_imu, NoData))

DisableImuStreaming ==
    /\ Idle
    /\ Start(MkCall("disable_imu_streaming", "None", <<>>, -1, FALSE, NoData))

DisableExtanaStreaming ==
    /\ Idle
    /\ Start(MkCall("disable_extana_streaming", "None", <<>>, -1, FALSE, NoData))

\* The flag of the call is cached.
GetDeviceName ==
    /\ Idle
    /\ \E cached \in BOOLEAN :
         Start(MkCall("get_device_name", "None", <<>>, -1, cached, NoData))

SetDeviceName ==
    /\ Idle
    /\ \E new_name \in NewNames :
         Start(MkCall("set_device_name", "None", <<>>, -1, FALSE, [name |-> new_name]))

HasExtana ==
    /\ Idle
    /\ \E cached \in BOOLEAN :
         Start(MkCall("has_extana", "None", <<>>, -1, cached, NoData))

HasImus ==
    /\ Idle
    /\ \E cached \in BOOLEAN :
         Start(MkCall("has_imus", "None", <<>>, -1, cached, NoData))

SetCalibration ==
    \E enabled \in BOOLEAN, imus \in {<<>>, <<0>>} :
       /\ sk8' = set_calibration(sk8, enabled, imus)
       /\ call' = MkCall("set_calibration", "None", imus, -1, enabled, NoData)
       /\ ble' = Aside
       /\ UNCHANGED <<clock, hist, task>>

LoadCalibration ==
    \E file \in CalFiles :
       LET res == load_calibration(sk8, ble, file)
       IN /\ sk8' = res.sk8
          /\ call' = MkCall("load_calibration", res.r, <<>>, -1, FALSE, file)
          /\ ble' = Aside
          /\ hist' = Recorded(hist, file, res.loaded)
          /\ UNCHANGED <<clock, task>>

SetImuCallback ==
    \E cb \in {"None", "callback"} :
       /\ sk8' = set_imu_callback(sk8, cb, IF cb = "None" THEN "None" ELSE "user_data")
       /\ call' = MkCall("set_imu_callback", "None", <<>>, -1, cb # "None", NoData)
       /\ ble' = Aside
       /\ UNCHANGED <<clock, hist, task>>

\* The transport delivers an IMU notification: the device sends packets of the
\* IMUs selected in its IMU selection register while the IMU characteristic is
\* subscribed.
ImuNotification(payloads, seqs) ==
    /\ ble.is_connected
    /\ "UUID_IMU_CCC" \in ble.notify
    /\ hist.npackets < MaxPackets
    /\ \E p \in payloads, imu \in PacketImus, seq \in seqs :
         /\ ble.regs["UUID_IMU_SELECTION"] # NoAttr
         /\ BitSet(ble.regs["UUID_IMU_SELECTION"], imu)
         /\ LET data == Packet(TRUE, p, imu, seq)
                res == _imu_callback(sk8, hist.imu_calls, data, clock)
            IN /\ sk8' = res.sk8
               /\ hist' = [hist EXCEPT !.npackets = @ + 1, !.imu_calls = res.calls,
                              !.delivered = Append(@, [data |-> data,
                                  cb |-> sk8._user_imu_callback # "None"])]
               /\ call' = MkCall("_imu_callback", res.exc, <<>>, -1, FALSE, data)
    /\ ble' = Aside
    /\ UNCHANGED <<clock, task>>

\* The transport delivers an IMU notification whose buffer is not of the length
\* of IMU_DATA_STRUCT.
MalformedImuNotification ==
    /\ ble.is_connected
    /\ "UUID_IMU_CCC" \in ble.notify
    /\ hist.npackets < MaxPackets
    /\ LET res == _imu_callback(sk8, hist.imu_calls, NoData, clock)
       IN /\ sk8' = res.sk8
          /\ hist' = [hist EXCEPT !.npackets = @ + 1, !.imu_calls = res.calls]
          /\ call' = MkCall("_imu_callback", res.exc, <<>>, -1, FALSE, NoData)
    /\ ble' = Aside
    /\ UNCHANGED <<clock, task>>

SetExtanaCallback ==
    \E cb \in {"None", "callback"} :
       /\ sk8' = set_extana_callback(sk8, cb, IF cb = "None" THEN "None" ELSE "user_data")
       /\ call' = MkCall("set_extana_callback", "None", <<>>, -1, cb # "None", NoData)
       /\ ble' = Aside
       /\ UNCHANGED <<clock, hist, task>>

\* The transport delivers an ExtAna notification (the ExtAna characteristic is
\* subscribed), well-formed or not.
ExtanaNotification(oks) ==
    /\ ble.is_connected
    /\ "UUID_EXTANA_CCC" \in ble.notify
    /\ hist.npackets < MaxPackets
    /\ \E ok \in oks, p \in ExtanaPayloads, seq \in ExtanaSeqs :
         LET data == ExtanaPacket(ok, p, seq)
             res == _extana_callback(sk8, hist.extana_calls, data, clock)
         IN /\ sk8' = res.sk8
            /\ hist' = [hist EXCEPT !.npackets = @ + 1, !.extana_calls = res.calls]
            /\ call' = MkCall("_extana_callback", res.exc, <<>>, -1, FALSE, data)
    /\ ble' = Aside
    /\ UNCHANGED <<clock, task>>

ResetReceivedPackets ==
    /\ sk8' = reset_received_packets(sk8)
    /\ call' = MkCall("reset_received_packets", "None", <<>>, -1, FALSE, NoData)
    /\ ble' = Aside
    /\ UNCHANGED <<clock, hist, task>>

\* The streaming state machine: connections and the two streaming modes.
Next ==
    \/ Connect(MaxConnects)
    \/ Disconnect
    \/ EnableImuStreaming(ImuLists, SensorMasks)
    \/ EnableExtanaStreaming(SensorMasks)
    \/ DisableImuStreaming
    \/ DisableExtanaStreaming
    \/ Serve
    \/ Resume

Spec == Init /\ [][Next]_vars

\* The data path: IMU streaming is enabled and disabled while the device sends IMU
\* notifications and the user registers a callback.
NextData ==
    \/ Connect(MaxSessions)
    \/ EnableImuStreaming({<<0, 2>>}, {3})
    \/ DisableImuStreaming
    \/ SetImuCallback
    \/ ImuNotification({Payload1}, SeqValues)
    \/ Serve
    \/ Resume

SpecData == Init /\ [][NextData]_vars

\* Calibration: the calibration of a connected session is loaded and switched while
\* streaming is enabled and disabled and packets arrive.
NextCal ==
    \/ Connect(MaxSessions)
    \/ GetDeviceName
    \/ LoadCalibration
    \/ SetCalibration
    \/ EnableImuStreaming({<<0>>}, {SENSOR_ALL})
    \/ DisableImuStreaming
    \/ ImuNotification(Payloads, {1})
    \/ Serve
    \/ Resume

SpecCal == Init /\ [][NextCal]_vars

\* The ExtAna data path: ExtAna streaming is enabled and disabled while the device
\* sends ExtAna and IMU notifications, well-formed or not, and the user registers
\* callbacks and resets the packet counter.
NextExt ==
    \/ Connect(MaxSessions)
    \/ EnableExtanaStreaming({SENSOR_ALL})
    \/ DisableExtanaStreaming
    \/ SetExtanaCallback
    \/ SetImuCallback
    \/ ImuNotification({Payload1}, {1})
    \/ MalformedImuNotification
    \/ ExtanaNotification(BOOLEAN)
    \/ ResetReceivedPackets
    \/ Serve
    \/ Resume

SpecExt == Init /\ [][NextExt]_vars

\* Notification processing: the device sends IMU and ExtAna notifications while
\* the user registers callbacks and switches calibration.
NextNotify ==
    \/ Connect(MaxSessions)
    \/ EnableExtanaStreaming({SENSOR_ALL})
    \/ SetExtanaCallback
    \/ SetImuCallback
    \/ SetCalibration
    \/ ImuNotification({Payload1}, {1})
    \/ ExtanaNotification({TRUE})
    \/ Serve
    \/ Resume

SpecNotify == Init /\ [][NextNotify]_vars

\* The sequence-number arithmetic of IMUData.update over every pair of sequence
\* numbers: an IMUData (get_imu(0)) that has received a first packet, with any
\* sequence number, receives a second one, at once or MaxGap seconds later.
\* The device name and hardware state operations, on the devices of DeviceProfilesHw.
InitDevice == InitWith(DeviceProfilesHw, HardwareStates)

NextDevice ==
    \/ Connect(MaxConnects)
    \/ Disconnect
    \/ GetDeviceName
    \/ SetDeviceName
    \/ HasExtana
    \/ HasImus
    \/ Serve
    \/ Resume

SpecDevice == InitDevice /\ [][NextDevice]_vars

\* One IMUData over time: seconds pass, packets arrive with the sequence numbers of
\* SeqValues, the IMUData is reset, and its sample rate and packets lost are read.
WinTick ==
    /\ clock < MaxTime + MaxGap
    /\ clock' = clock + 1
    /\ call' = MkCall("time", "None", <<>>, -1, FALSE, NoData)
    /\ UNCHANGED <<sk8, ble, hist, task>>

WinUpdate ==
    /\ hist.nupdates < MaxUpdates
    /\ \E seq \in SeqValues :
         LET data == Packet(TRUE, Payload1, 0, seq)
             u == IMUData_update(sk8._imus[0], data.acc, data.gyro, data.mag,
                                 seq, clock, clock)
         IN /\ sk8' = [sk8 EXCEPT !._imus[0] = u.d]
            /\ call' = MkCall("IMUData.update", u.exc, <<>>, -1, FALSE, data)
    /\ hist' = [hist EXCEPT !.nupdates = @ + 1]
    /\ UNCHANGED <<ble, clock, task>>

WinReset ==
    /\ sk8' = [sk8 EXCEPT !._imus[0] = IMUData_reset(@, clock)]
    /\ call' = MkCall("IMUData.reset", "None", <<>>, -1, FALSE, NoData)
    /\ hist' = [hist EXCEPT !.nupdates = 0, !.reset_at = clock]
    /\ UNCHANGED <<ble, clock, task>>

WinGetSampleRate ==
    /\ call' = MkCall("get_sample_rate", "None", <<>>, -1, FALSE,
                      IMUData_get_sample_rate(sk8._imus[0], clock))
    /\ UNCHANGED <<sk8, ble, clock, hist, task>>

WinGetPacketsLost ==
    /\ call' = MkCall("get_packets_lost", "None", <<>>, -1, FALSE,
                      [num |-> IMUData_get_packets_lost(sk8._imus[0], clock), den |-> 1])
    /\ UNCHANGED <<sk8, ble, clock, hist, task>>

NextWindow ==
    \/ WinTick
    \/ WinUpdate
    \/ WinReset
    \/ WinGetSampleRate
    \/ WinGetPacketsLost

InitWindow == InitWith({UUIDS}, {EXT_HW_IMUS + EXT_HW_EXTANA})

SpecWindow == InitWindow /\ [][NextWindow]_vars

\* IMUData._get_cal as a function of its arguments: vectors of whole and fractional,
\* positive and negative components and of 0, 1 and 3 components, against the
\* neutral and other offsets and (whole) scales.
RawComponents == {-Unit - 1, 0, 2, Unit}
RawVectors ==
    {<<a, b, c>> : a \in RawComponents, b \in RawComponents, c \in RawComponents}
      \cup {<<>>, <<5>>}
CalOffsets == {Zeros, <<1, -2, Unit>>}
CalScales == {Ones, <<2 * Unit, Unit, 0>>}

GetCal ==
    \E raw \in RawVectors, offset \in CalOffsets, scale \in CalScales, ignore_cal \in BOOLEAN :
       /\ call' = MkCall("_get_cal", "None", <<>>, -1, ignore_cal,
                         [raw |-> raw, offset |-> offset, scale |-> scale,
                          out |-> _get_cal(raw, offset, scale, ignore_cal)])
       /\ UNCHANGED <<sk8, ble, clock, hist, task>>

InitGetCal == InitWith({UUIDS}, {EXT_HW_IMUS + EXT_HW_EXTANA})

NextGetCal == GetCal

SpecGetCal == InitGetCal /\ [][NextGetCal]_vars

\* IMU streaming control with every kind of IMU list: the lists of ImuLists, the
\* empty list, all five IMUs, and lists holding an index beyond the five slots
\* (5, 7, 8) or below them (-1); on devices with every characteristic, without
\* the IMU notification characteristic, without the sensor selection register.
ImuListsAny == ImuLists \cup {<<>>, <<4, 3, 2, 1, 0>>, <<5>>, <<0, 7>>, <<8>>, <<-1>>}

DeviceProfilesImu ==
    {UUIDS, UUIDS \ {"UUID_IMU_CCC"}, UUIDS \ {"UUID_SENSOR_SELECTION"}}

InitImu == InitWith(DeviceProfilesImu, {EXT_HW_IMUS})

NextImu ==
    \/ Connect(MaxConnects)
    \/ Disconnect
    \/ EnableImuStreaming(ImuListsAny, SensorMasks)
    \/ DisableImuStreaming
    \/ Serve
    \/ Resume

SpecImu == InitImu /\ [][NextImu]_vars

SeqNumbers == 0 .. (SEQ_MOD - 1)

InitSeq ==
    /\ \E t0 \in 0..MaxTime, s0 \in SeqNumbers :
         LET data == Packet(TRUE, Payload2, 0, s0)
             u == IMUData_update(SK8_init(0)._imus[0], data.acc, data.gyro, data.mag,
                                 s0, t0, t0)
         IN /\ clock = t0
            /\ sk8 = [SK8_init(0) EXCEPT !._imus[0] = u.d]
            /\ call = MkCall("IMUData.update", u.exc, <<>>, -1, FALSE, data)
    /\ ble = [is_connected |-> FALSE, chars |-> UUIDS,
              regs |-> [u \in UUIDS |-> NoAttr], notify |-> {}, events |-> <<>>,
              device_name |-> "SK8", hardware_state |-> EXT_HW_IMUS + EXT_HW_EXTANA]
    /\ hist = [InitHist EXCEPT !.nupdates = 1]
    /\ task = NoTask

SeqUpdate ==
    /\ hist.nupdates = 1
    /\ \E seq \in SeqNumbers, gap \in {0, MaxGap} :
         LET data == Packet(TRUE, Payload1, 0, seq)
             now == clock + gap
             u == IMUData_update(sk8._imus[0], data.acc, data.gyro, data.mag,
                                 seq, now, now)
         IN /\ clock' = now
            /\ sk8' = [sk8 EXCEPT !._imus[0] = u.d]
            /\ call' = MkCall("IMUData.update", u.exc, <<>>, -1, FALSE, data)
    /\ hist' = [hist EXCEPT !.nupdates = 2]
    /\ UNCHANGED <<ble, task>>

NextSeq == SeqUpdate

SpecSeq == InitSeq /\ [][NextSeq]_vars

\* ----------------------------------------------------------------- claims
\* The streaming state: what the session has enabled, the selection registers of
\* the device and its active notification subscriptions.
StreamingState == <<sk8._enabled_imus, sk8._enabled_sensors, ble.regs, ble.notify>>

\* The streaming and device state in which the call of an async method that ends
\* in this step was made: the one kept by the coroutine in flight, or the current
\* one when the call ends without having been suspended.
Before == IF Idle THEN Snapshot(sk8, ble) ELSE task.before

StreamingBefore == <<Before._enabled_imus, Before._enabled_sensors, Before.regs, Before.notify>>

\* The registers written by the operation that acted last.
Written(b) == {b.events[k][2] : k \in {j \in 1..Len(b.events) : b.events[j][1] = "write"}}

\* C1: enable_extana_streaming called while IMU streaming mode is active returns a
\* failure result and leaves enabled_imus, enabled_sensors, the selection registers
\* and the notification subscriptions as they were.
C1_ExtanaRejectedWhileImuActive ==
    [][(hist.imu_active /\ call'.op = "enable_extana_streaming")
          => (call'.r = "False" /\ StreamingState' = StreamingBefore)]_vars

\* C2: enable_imu_streaming called while ExtAna streaming mode is active returns a
\* failure result, writes neither selection register and leaves enabled_imus and
\* enabled_sensors unchanged.
C2_ImuRejectedWhileExtanaActive ==
    [][(hist.extana_active /\ call'.op = "enable_imu_streaming")
          => /\ call'.r = "False"
             /\ Written(ble') \cap {"UUID_IMU_SELECTION", "UUID_SENSOR_SELECTION"} = {}
             /\ sk8'._enabled_imus = Before._enabled_imus
             /\ sk8'._enabled_sensors = Before._enabled_sensors]_vars

\* C3: from a successful disable_imu_streaming until the next successful enable
\* call, get_enabled_imus returns an empty collection.
C3_EnabledImusEmptyAfterDisable ==
    hist.imu_disabled => get_enabled_imus(sk8) = <<>>

\* An IMUData on which no update has acted since its construction or last reset.
FreshIMU(d) == d._packet_metadata = <<>> /\ d._packets_lost = 0

\* C4: the first update after construction or reset of an IMUData records 0 dropped
\* packets and leaves the lifetime loss at 0, whatever the sequence number of that
\* first packet.
C4_FirstUpdateRecordsNoLoss ==
    [][(call'.op = "_imu_callback" /\ call'.r = "None"
           /\ FreshIMU(sk8._imus[call'.data.imu]))
          => /\ sk8'._imus[call'.data.imu]._packet_metadata[1][2] = 0
             /\ IMUData_get_total_packets_lost(sk8'._imus[call'.data.imu]) = 0]_vars

\* The calibration settings of every IMU: the calibration_enabled flag and the
\* coefficients.
CalibrationSettings(s) ==
    [i \in IMUS |-> <<IMUData_get_calibration(s._imus[i]), s._imus[i].acc_scale,
                      s._imus[i].acc_offsets, s._imus[i].gyro_offsets,
                      s._imus[i].mag_scale, s._imus[i].mag_offsets>>]

\* C5: a successful disable_imu_streaming or disable_extana_streaming leaves the
\* calibration_enabled flag and the loaded coefficients of every IMU as they were.
C5_CalibrationPersistsAcrossDisable ==
    [][(call'.op \in {"disable_imu_streaming", "disable_extana_streaming"}
           /\ call'.r = "True")
          => CalibrationSettings(sk8') = CalibrationSettings(sk8)]_vars

\* The number of sequence numbers missing between the consecutive packets of seqs.
RECURSIVE MissingBetween(_)
MissingBetween(seqs) ==
    IF Len(seqs) < 2 THEN 0
    ELSE ((seqs[2] - seqs[1] - 1) % SEQ_MOD) + MissingBetween(Tail(seqs))

\* C6: end to end; when every IMU notification delivered since the session's
\* IMUData were new is of one IMU index and a callback was registered, that IMU's
\* lifetime loss is the number of sequence numbers missing between consecutive
\* packets (5,6,8 gives 1), its seq is that of the last packet, and the callback was
\* invoked once per packet with the packet's decoded vectors.
C6_EndToEndLossAndCallbacks ==
    \A i \in PacketImus :
       (/\ hist.delivered # <<>>
        /\ \A k \in 1..Len(hist.delivered) :
              hist.delivered[k].data.imu = i /\ hist.delivered[k].cb)
       => LET n == Len(hist.delivered)
              seqs == [k \in 1..n |-> hist.delivered[k].data.seq]
          IN /\ IMUData_get_total_packets_lost(sk8._imus[i]) = MissingBetween(seqs)
             /\ sk8._imus[i].seq = seqs[n]
             /\ Len(hist.imu_calls) = n
             /\ \A k \in 1..n :
                   /\ hist.imu_calls[k].acc = hist.delivered[k].data.acc
                   /\ hist.imu_calls[k].gyro = hist.delivered[k].data.gyro
                   /\ hist.imu_calls[k].mag = hist.delivered[k].data.mag
                   /\ hist.imu_calls[k].seq = hist.delivered[k].data.seq

\* C7: the loss recorded by update is the number of packets skipped, with
\* wraparound: a packet seq = (last_seq + 1 + k) mod 256 records k dropped packets
\* and adds k to the lifetime loss (last_seq=254, seq=0 gives 1; 10, 10 gives 255).
C7_LossIsPacketsSkipped ==
    [][(call'.op = "IMUData.update" /\ call'.r = "None")
          => LET k == (call'.data.seq - (sk8._imus[0].seq + 1)) % SEQ_MOD
             IN /\ sk8'._imus[0]._packet_metadata[1][2] = k
                /\ sk8'._imus[0]._packets_lost = sk8._imus[0]._packets_lost + k]_vars

\* C8: with a previous sequence number set, update computes
\* dropped = (last_seq + 1 - seq) mod 256, adds it to the lifetime-lost counter,
\* records it with the arrival timestamp at the head of the rolling window, and
\* overwrites last_seq with seq; the entries of the window that are not older than
\* PACKET_PERIOD stay behind the new one.
C8_UpdateLossArithmetic ==
    [][(call'.op = "IMUData.update" /\ sk8._imus[0].seq # -1)
          => LET dropped == (sk8._imus[0].seq + 1 - call'.data.seq) % SEQ_MOD
                 InWindow(e) == clock' - e[1] <= PACKET_PERIOD
             IN /\ call'.r = "None"
                /\ sk8'._imus[0]._packets_lost = sk8._imus[0]._packets_lost + dropped
                /\ sk8'._imus[0]._packet_metadata
                      = <<<<clock', dropped>>>>
                           \o SelectSeq(sk8._imus[0]._packet_metadata, InWindow)
                /\ sk8'._imus[0].seq = call'.data.seq
                /\ sk8'._imus[0].timestamp = clock']_vars

\* C8 witness: a second update has acted across the wraparound (last_seq 254,
\* seq 0) at a time other than 0.
C8_Witness ==
    /\ hist.nupdates = 2
    /\ call.op = "IMUData.update"
    /\ call.r = "None"
    /\ clock = 1
    /\ sk8._imus[0].seq = 0
    /\ sk8._imus[0]._packet_metadata = <<<<1, 255>>, <<1, 3>>>>
    /\ sk8._imus[0]._packets_lost = 258

\* The vectors an IMUData holds are the raw decoded vectors of notification data.
StoresRaw(d, data) ==
    d.acc = Fix(data.acc) /\ d.gyro = Fix(data.gyro) /\ d.mag = Fix(data.mag)

\* C9: update stores the raw decoded vectors and completes without error whenever
\* calibration is not enabled for the IMU or no coefficients were loaded for it,
\* also after set_calibration(True) on an IMU that never had calibration data.
C9_RawWithoutCalibration ==
    [][(call'.op = "_imu_callback"
           /\ (\/ ~get_calibration(sk8)[call'.data.imu]
               \/ hist.section[call'.data.imu].is_none))
          => /\ call'.r = "None"
             /\ StoresRaw(sk8'._imus[call'.data.imu], call'.data)]_vars

\* v is raw * scale - offset made an integer by rounding or by truncation.
IsCalibratedInt(v, raw, scale, offset) ==
    \A x \in 1..3 :
       LET exact == ((raw[x] * Unit * scale[x]) \div Unit) - offset[x]
       IN v[x] % Unit = 0 /\ v[x] - exact < Unit /\ exact - v[x] < Unit

\* C10: when the coefficients loaded for an IMU lack the fields of a sub-sensor,
\* update with calibration enabled leaves that sub-sensor's stored vector equal to
\* its raw decoded vector, and calibrates the sub-sensors that have coefficients.
C10_MissingSubSensorStaysRaw ==
    [][(call'.op = "_imu_callback"
           /\ get_calibration(sk8)[call'.data.imu]
           /\ ~hist.section[call'.data.imu].is_none)
          => LET sec == hist.section[call'.data.imu]
                 d == sk8'._imus[call'.data.imu]
                 data == call'.data
             IN /\ call'.r = "None"
                /\ IF "acc" \in sec.keys
                   THEN IsCalibratedInt(d.acc, data.acc, sec.acc_scale, sec.acc_offset)
                   ELSE d.acc = Fix(data.acc)
                /\ IF "gyro" \in sec.keys
                   THEN \A x \in 1..3 : d.gyro[x] = data.gyro[x] * Unit - sec.gyro_offset[x]
                   ELSE d.gyro = Fix(data.gyro)
                /\ IF "mag" \in sec.keys
                   THEN IsCalibratedInt(d.mag, data.mag, sec.mag_scale, sec.mag_offset)
                   ELSE d.mag = Fix(data.mag)]_vars

\* C11: the characteristic cache is valid for one connection only: it is empty
\* after a disconnect, and in a connected session a cached characteristic is one
\* of the current connection, never of an earlier one.
C11_CacheScopedToConnection ==
    /\ (call.op = "disconnect" /\ call.r = "True")
          => \A u \in UUIDS : sk8._uuid_chars[u] = 0
    /\ _check_connected(sk8, ble)
          => \A u \in UUIDS : sk8._uuid_chars[u] \in {0, sk8._client}

\* C12: a successful disconnect leaves the streaming state Idle (get_enabled_imus
\* empty, no notification subscription) and every IMUData and the ExtAnaData in
\* their reset state.
C12_DisconnectCancelsStreaming ==
    [][(call'.op = "disconnect" /\ call'.r = "True")
          => /\ get_enabled_imus(sk8') = <<>>
             /\ ble'.notify = {}
             /\ \A i \in IMUS : sk8'._imus[i] = IMUData_reset(sk8._imus[i], clock)
             /\ sk8'._extana_data = ExtAnaData_init]_vars

\* C13: after a successful disable_extana_streaming that ends an ExtAna streaming
\* mode (no enable_imu_streaming of the user being active), no notification
\* subscription remains and get_enabled_imus is empty.
C13_IdleAfterDisableExtana ==
    [][(call'.op = "disable_extana_streaming" /\ call'.r = "True"
           /\ hist.extana_active /\ ~hist.imu_active)
          => (ble'.notify = {} /\ get_enabled_imus(sk8') = <<>>)]_vars

\* The transport operations of a successful enable_extana_streaming(include_imu,
\* sensors) as the specification orders them, flag_uuid being the flag register.
ExtanaEnableEvents(include_imu, sensors, flag_uuid) ==
    (IF include_imu
     THEN << <<"write", "UUID_IMU_SELECTION", 1>>,
             <<"write", "UUID_SENSOR_SELECTION", sensors>>,
             <<"start_notify", "UUID_IMU_CCC", 0>> >>
     ELSE << >>)
    \o << <<"write", flag_uuid, IF include_imu THEN 1 ELSE 0>>,
           <<"start_notify", "UUID_EXTANA_CCC", 0>> >>

\* C15: a successful enable_extana_streaming(include_imu, sensors), sensors not 0,
\* on a device that has the IMU selection register,
\* enables IMU #0 streaming (register writes and IMU subscription) only when
\* include_imu, then writes the flag register (1 iff include_imu), then subscribes
\* the ExtAna characteristic; enabled_imus contains 0 if and only if include_imu.
C15_ExtanaEnablesImuOnlyOnRequest ==
    [][(call'.op = "enable_extana_streaming" /\ call'.r = "True" /\ call'.sensors # 0
           /\ "UUID_IMU_SELECTION" \in ble.chars)
          => /\ \E f \in {"UUID_EXTANA_IMU_STREAMING", "UUID_EXTANA_IMU_STREAMING_TMP"} :
                   ble'.events = ExtanaEnableEvents(call'.flag, call'.sensors, f)
             /\ (\E k \in 1..Len(sk8'._enabled_imus) : sk8'._enabled_imus[k] = 0)
                   <=> call'.flag]_vars

\* C16: enable_imu_streaming returns a failure result when the session is not
\* connected or the sensors mask is 0, and then writes nothing to the device,
\* makes no notification subscription and leaves enabled_imus and enabled_sensors
\* unchanged.
C16_EnableImuFailsWithoutEffect ==
    [][(call'.op = "enable_imu_streaming"
           /\ (~Before.is_connected \/ call'.sensors = 0))
          => /\ call'.r = "False"
             /\ ble'.events = <<>>
             /\ ble'.regs = Before.regs
             /\ ble'.notify = Before.notify
             /\ sk8'._enabled_imus = Before._enabled_imus
             /\ sk8'._enabled_sensors = Before._enabled_sensors]_vars

\* C16 witness: enable_imu_streaming with sensors mask 0 has failed on a connected
\* session that is streaming IMUs 0 and 2.
C16_Witness ==
    /\ call.op = "enable_imu_streaming"
    /\ call.sensors = 0
    /\ call.r = "False"
    /\ _check_connected(sk8, ble)
    /\ "UUID_IMU_CCC" \in ble.notify
    /\ sk8._enabled_imus = <<0, 2>>
    /\ ble.regs["UUID_IMU_SELECTION"] = 5

\* C14: a successful disable_extana_streaming resets the ExtAnaData: its sequence
\* number, channel values, temperature and timestamp are back to their initial
\* values.
C14_DisableExtanaResetsExtAnaData ==
    [][(call'.op = "disable_extana_streaming" /\ call'.r = "True")
          => sk8'._extana_data = ExtAnaData_init]_vars

\* The user callback invocation that notification data must produce, the
\* registered user data being user_data and the arrival time now.
ImuCallbackCall(data, user_data, now) ==
    [acc |-> data.acc, gyro |-> data.gyro, mag |-> data.mag, imu |-> data.imu,
     seq |-> data.seq, timestamp |-> now, data |-> user_data, seen |-> data.seq]

ExtanaCallbackCall(data, user_data, now) ==
    [ch1 |-> data.ch1, ch2 |-> data.ch2, temp |-> data.temp, seq |-> data.seq,
     timestamp |-> now, data |-> user_data, seen |-> data.seq]

\* C17: each well-formed IMU or ExtAna notification updates the sensor state and
\* then, when a user callback is registered, invokes it exactly once with the
\* notification's decoded values, index, seq, timestamp and the registered user
\* data, the sensor state already updated; with no callback registered none is
\* invoked.
C17_NotificationUpdatesThenCallsBack ==
    [][/\ (call'.op = "_imu_callback" /\ call'.data.ok)
          => /\ sk8'._imus[call'.data.imu].seq = call'.data.seq
             /\ hist'.imu_calls =
                   IF sk8._user_imu_callback # "None"
                   THEN Append(hist.imu_calls,
                               ImuCallbackCall(call'.data, sk8._user_imu_callback_data, clock'))
                   ELSE hist.imu_calls
       /\ (call'.op = "_extana_callback" /\ call'.data.ok)
          => /\ sk8'._extana_data.seq = call'.data.seq
             /\ hist'.extana_calls =
                   IF sk8._user_extana_callback # "None"
                   THEN Append(hist.extana_calls,
                               ExtanaCallbackCall(call'.data, sk8._user_extana_callback_data, clock'))
                   ELSE hist.extana_calls]_vars

\* C18: a notification whose buffer is not of the length of its kind changes no
\* field of any IMUData or of the ExtAnaData, nor anything else of the session,
\* and no user callback is invoked for it.
C18_MalformedNotificationSkipped ==
    [][(call'.op \in {"_imu_callback", "_extana_callback"} /\ ~call'.data.ok)
          => /\ sk8' = sk8
             /\ hist'.imu_calls = hist.imu_calls
             /\ hist'.extana_calls = hist.extana_calls]_vars

\* C18 witness: a malformed ExtAna notification has been delivered while a user
\* ExtAna callback is registered and the ExtAnaData holds the values of an
\* earlier packet, for which the callback was invoked.
C18_Witness ==
    /\ call.op = "_extana_callback"
    /\ ~call.data.ok
    /\ call.r = "struct.error"
    /\ sk8._user_extana_callback # "None"
    /\ sk8._extana_data.seq = 2
    /\ sk8._extana_data.ch1 = 100
    /\ Len(hist.extana_calls) = 1

\* C19: get_received_packets increases by one with every processed IMU or ExtAna
\* notification and is 0 right after reset_received_packets.
C19_ReceivedPacketsCounts ==
    [][/\ (call'.op \in {"_imu_callback", "_extana_callback"} /\ call'.r = "None")
          => get_received_packets(sk8') = get_received_packets(sk8) + 1
       /\ (call'.op = "reset_received_packets")
          => get_received_packets(sk8') = 0]_vars

\* The running total of lost ExtAna packets an ExtAnaData holds, NoAttr when it
\* has no such attribute.
ExtAnaLost(e) == IF "_packets_lost" \in DOMAIN e THEN e._packets_lost ELSE NoAttr

\* C20: when an ExtAna packet follows an earlier one, ExtAnaData.update adds the
\* number of dropped packets (the gap between the sequence numbers, modulo 256)
\* to the running total of lost ExtAna packets, and leaves the total unchanged
\* when the sequence numbers are consecutive.
C20_ExtAnaLossTotal ==
    [][(call'.op = "_extana_callback" /\ call'.r = "None"
           /\ sk8._extana_data # ExtAnaData_init)
          => LET k == (call'.data.seq - (sk8._extana_data.seq + 1)) % SEQ_MOD
             IN IF k = 0
                THEN ExtAnaLost(sk8'._extana_data) = ExtAnaLost(sk8._extana_data)
                ELSE /\ ExtAnaLost(sk8'._extana_data) # NoAttr
                     /\ ExtAnaLost(sk8'._extana_data)
                           = ExtAnaLost(sk8._extana_data) + k]_vars

\* The section named {device name}_IMU{i} is in the calibration file.
SectionPresent(s, file, i) == file.name = s._name /\ ~file.sections[i].is_none

\* The calibration coefficients held by an IMUData.
Coefficients(d) ==
    <<d.acc_scale, d.acc_offsets, d.gyro_offsets, d.mag_scale, d.mag_offsets>>

\* C21: SK8.load_calibration loads the coefficients into every IMU 0..4 whose
\* section is present in the file, skips without error every IMU without a
\* section, and returns True iff at least one IMU was loaded; when not connected
\* it returns False and loads nothing.
C21_LoadsEverySectionPresent ==
    [][call'.op = "load_calibration"
          => LET file == call'.data
             IN IF ~ble.is_connected
                THEN call'.r = "False" /\ sk8' = sk8
                ELSE /\ call'.r \in {"True", "False"}
                     /\ (call'.r = "True") <=> (\E i \in IMUS : SectionPresent(sk8, file, i))
                     /\ \A i \in IMUS :
                          IF SectionPresent(sk8, file, i)
                          THEN Coefficients(sk8'._imus[i])
                                 = Coefficients(IMUData_load_calibration(sk8._imus[i],
                                                                        file.sections[i]).d)
                          ELSE sk8'._imus[i] = sk8._imus[i]]_vars

\* The write of a device name made by the last operation.
NameWritten(b, name) ==
    \E k \in 1..Len(b.events) : b.events[k] = <<"write", "UUID_DEVICE_NAME", name>>

\* C22: set_device_name returns True and updates the cached device name exactly
\* when the session is connected, the name has 1..20 characters and the write is
\* made; in every other case it returns False and leaves the cached name as it was.
C22_SetDeviceNameResult ==
    [][call'.op = "set_device_name"
          => LET name == call'.data.name
             IN IF /\ Before.is_connected
                   /\ Len(name) \in 1..MAX_DEVICE_NAME_LEN
                   /\ NameWritten(ble', name)
                THEN call'.r = "True" /\ sk8'._name = name
                ELSE call'.r = "False" /\ sk8'._name = Before._name]_vars

\* The hardware state of the device can be obtained: the session was connected
\* when the call was made and the device b has one of the two hardware state
\* characteristics.
HardwareObtainable(b) ==
    Before.is_connected /\ {"UUID_HARDWARE_STATE", "UUID_HARDWARE_STATE_TMP"} \cap b.chars # {}

\* C23: has_extana and has_imus return True only when the corresponding bit is set
\* in the hardware state byte read from the device, and return False when the
\* hardware state cannot be obtained.
C23_HardwareFlagsFromDevice ==
    [][call'.op \in {"has_extana", "has_imus"}
          => LET bit == IF call'.op = "has_extana" THEN EXT_HW_EXTANA ELSE EXT_HW_IMUS
             IN /\ call'.r \in {"True", "False"}
                /\ call'.r = "True"
                     => (sk8'.hardware # <<>>) /\ NatAnd(ble.hardware_state, bit) = bit
                /\ (~HardwareObtainable(ble) /\ ~call'.flag) => call'.r = "False"]_vars

\* The sum of the dropped counts of the entries of a window.
RECURSIVE WindowLoss(_, _)
WindowLoss(md, k) == IF k = 0 THEN 0 ELSE md[k][2] + WindowLoss(md, k - 1)

\* C24: get_sample_rate and get_packets_lost both return -1 while less than the
\* 3-second period has elapsed since the construction or reset of the IMUData;
\* afterwards get_sample_rate returns len(window) / 3 and get_packets_lost the sum
\* of the dropped counts of the entries of the window.
C24_RateAndLossAfterPeriod ==
    LET window == sk8._imus[0]._packet_metadata
        elapsed == clock - hist.reset_at
        v == call.data
    IN /\ call.op = "get_sample_rate"
          => IF elapsed < 3 THEN v.num = -1 * v.den
             ELSE v.num * 3 = Len(window) * v.den
       /\ call.op = "get_packets_lost"
          => IF elapsed < 3 THEN v.num = -1 * v.den
             ELSE v.num = WindowLoss(window, Len(window)) * v.den

C24_Witness ==
    /\ call.op = "get_packets_lost"
    /\ clock - hist.reset_at >= 3
    /\ hist.reset_at > 0
    /\ Len(sk8._imus[0]._packet_metadata) = 2
    /\ call.data.num > 0

\* C25: _get_cal with offset 0 and scale 1 (and ignore_cal False) gives raw for
\* every vector, and with ignore_cal True it gives raw for every offset and scale.
C25_GetCalIdentity ==
    call.op = "_get_cal"
       => LET a == call.data
          IN /\ (~call.flag /\ a.offset = Zeros /\ a.scale = Ones) => a.out = a.raw
             /\ call.flag => a.out = a.raw

C25_Witness ==
    /\ call.op = "_get_cal"
    /\ ~call.flag
    /\ call.data.offset = Zeros /\ call.data.scale = Ones
    /\ call.data.raw = <<-Unit - 1, 2, Unit>>
    /\ call.data.out = call.data.raw

\* The device has neither ExtAna configuration characteristic.
NoExtanaConfig(b) ==
    {"UUID_EXTANA_IMU_STREAMING", "UUID_EXTANA_IMU_STREAMING_TMP"} \cap b.chars = {}

\* C26: when enable_extana_streaming fails because the ExtAna configuration
\* characteristic is not found, it returns a failure result and leaves the session
\* as it was: no register written, no subscription added, enabled_imus and
\* enabled_sensors unchanged.
C26_ExtanaConfigMissingNoEffect ==
    [][(call'.op = "enable_extana_streaming" /\ Before.is_connected /\ NoExtanaConfig(ble))
          => /\ call'.r = "False"
             /\ Written(ble') = {}
             /\ ble'.notify = Before.notify
             /\ ble'.regs = Before.regs
             /\ sk8'._enabled_imus = Before._enabled_imus
             /\ sk8'._enabled_sensors = Before._enabled_sensors]_vars

\* The elements of a list of IMU indices.
Indices(imus) == {imus[k] : k \in 1..Len(imus)}

\* C27: enable_imu_streaming called with valid arguments while IMU streaming is
\* already active succeeds, and after a successful call get_enabled_imus,
\* get_enabled_sensors and the selection registers of the device reflect that call.
C27_ReenableReflectsLatestCall ==
    [][(call'.op = "enable_imu_streaming" /\ hist.imu_active)
          => /\ (Before.is_connected /\ call'.sensors # 0
                    /\ Indices(call'.imus) \subseteq IMUS)
                  => call'.r = "True"
             /\ call'.r = "True"
                  => /\ get_enabled_imus(sk8') = call'.imus
                     /\ get_enabled_sensors(sk8') = call'.sensors
                     /\ \A i \in IMUS :
                          BitSet(ble'.regs["UUID_IMU_SELECTION"], i) <=> i \in Indices(call'.imus)
                     /\ ble'.regs["UUID_SENSOR_SELECTION"] = call'.sensors]_vars

\* C27 witness: IMUs 0 and 2 with sensors 3 were enabled on a session that was
\* already streaming with another selection.
C27_Witness ==
    /\ call.op = "enable_imu_streaming"
    /\ call.r = "True"
    /\ call.imus = <<0, 2>> /\ call.sensors = 3
    /\ call.flag
    /\ Len(ble.events) = 3
    /\ sk8._enabled_imus = <<0, 2>> /\ sk8._enabled_sensors = 3
    /\ ble.regs["UUID_IMU_SELECTION"] = 5 /\ ble.regs["UUID_SENSOR_SELECTION"] = 3

\* C28: enable_imu_streaming with a list holding an index outside 0..4 returns a
\* failure result, writes no register, makes no subscription and leaves
\* enabled_imus unchanged.
C28_OutOfRangeIndexRejected ==
    [][(call'.op = "enable_imu_streaming" /\ ~(Indices(call'.imus) \subseteq IMUS))
          => /\ call'.r = "False"
             /\ Written(ble') = {}
             /\ ble'.notify = Before.notify
             /\ sk8'._enabled_imus = Before._enabled_imus]_vars

\* C30: a successful enable_imu_streaming(imus, sensors) writes the IMU selection
\* byte (bit i set iff i is in imus, for i in 0..4), then writes the sensor
\* selection byte sensors, then subscribes to the IMU notification characteristic;
\* enabled_imus and enabled_sensors are recorded only after the subscription: they
\* are unchanged when the subscription is not made, and while the call is in
\* flight (suspended at a write or at the subscription) they are those of before
\* the call.
C30_EnableImuOrder ==
    [][/\ call'.op = "enable_imu_streaming"
          => /\ call'.r = "True"
                  => /\ Len(ble'.events) = 3
                     /\ ble'.events[1][1] = "write"
                     /\ ble'.events[1][2] = "UUID_IMU_SELECTION"
                     /\ \A i \in IMUS :
                          BitSet(ble'.events[1][3], i) <=> i \in Indices(call'.imus)
                     /\ ble'.events[2] = <<"write", "UUID_SENSOR_SELECTION", call'.sensors>>
                     /\ ble'.events[3] = <<"start_notify", "UUID_IMU_CCC", 0>>
                     /\ sk8'._enabled_imus = call'.imus
                     /\ sk8'._enabled_sensors = call'.sensors
             /\ "UUID_IMU_CCC" \notin ble'.notify
                  => /\ sk8'._enabled_imus = Before._enabled_imus
                     /\ sk8'._enabled_sensors = Before._enabled_sensors
       /\ task'.op = "enable_imu_streaming"
          => /\ sk8'._enabled_imus = task'.before._enabled_imus
             /\ sk8'._enabled_sensors = task'.before._enabled_sensors]_vars

\* C30 witness: all five IMUs were enabled with the three sensors.
C30_Witness ==
    /\ call.op = "enable_imu_streaming"
    /\ call.r = "True"
    /\ call.imus = <<4, 3, 2, 1, 0>> /\ call.sensors = SENSOR_ALL
    /\ ble.events = <<<<"write", "UUID_IMU_SELECTION", 31>>,
                      <<"write", "UUID_SENSOR_SELECTION", SENSOR_ALL>>,
                      <<"start_notify", "UUID_IMU_CCC", 0>>>>
    /\ sk8._enabled_imus = <<4, 3, 2, 1, 0>>

\* v is the integer nearest to raw * scale - offset (either neighbour at a tie).
IsNearestInt(v, raw, scale, offset) ==
    \A x \in 1..3 :
       LET exact == ((raw[x] * Unit * scale[x]) \div Unit) - offset[x]
       IN v[x] % Unit = 0 /\ 2 * (v[x] - exact) <= Unit /\ 2 * (exact - v[x]) <= Unit

\* Calibration is applied by update to an IMUData: it is enabled and the
\* coefficients of the three sub-sensors are there.
CalibrationApplied(d) ==
    d._use_calibration /\ d.gyro_offsets # <<>> /\ d.mag_offsets # <<>> /\ d.mag_scale # <<>>

\* C29: when calibration is applied, each accelerometer and magnetometer component
\* stored by update is raw * scale - offset rounded to the nearest integer, for
\* positive and negative values alike, and each gyroscope component is
\* raw - offset, not rounded.
C29_CalibratedValuesRounded ==
    [][(call'.op = "_imu_callback" /\ call'.data.ok
           /\ CalibrationApplied(sk8._imus[call'.data.imu]))
          => LET d == sk8._imus[call'.data.imu]
                 u == sk8'._imus[call'.data.imu]
                 data == call'.data
             IN /\ IsNearestInt(u.acc, data.acc, d.acc_scale, d.acc_offsets)
                /\ IsNearestInt(u.mag, data.mag, d.mag_scale, d.mag_offsets)
                /\ \A x \in 1..3 : u.gyro[x] = data.gyro[x] * Unit - d.gyro_offsets[x]]_vars

\* C31: immediately after every IMUData.update the rolling window is ordered by
\* arrival time with the newest entry at the head, holds the entry of the packet
\* just processed, and holds no entry that arrived more than 3 seconds before now.
C31_WindowSortedAndPruned ==
    (call.op = "IMUData.update" /\ call.r = "None")
       => LET md == sk8._imus[0]._packet_metadata
          IN /\ md # <<>>
             /\ md[1][1] = clock
             /\ \A k \in 1..(Len(md) - 1) : md[k][1] >= md[k + 1][1]
             /\ \A k \in 1..Len(md) : clock - md[k][1] <= 3

\* C31 witness: the third update since the reset has pruned the entries of the
\* two earlier ones, which were more than 3 seconds old.
C31_Witness ==
    /\ call.op = "IMUData.update"
    /\ hist.nupdates = 3
    /\ clock - hist.reset_at > 3
    /\ Len(sk8._imus[0]._packet_metadata) = 1

\* C32: get_total_packets_lost is always available (never the -1 of the windowed
\* readings) and never decreases over any sequence of updates; only reset brings
\* it back to 0.
C32_TotalLossMonotonic ==
    [][LET before == IMUData_get_total_packets_lost(sk8._imus[0])
           after == IMUData_get_total_packets_lost(sk8'._imus[0])
       IN /\ before >= 0 /\ after >= 0
          /\ call'.op # "IMUData.reset" => after >= before
          /\ call'.op = "IMUData.reset" => after = 0]_vars

\* C32 witness: a third update has raised a total that was already positive, in
\* the first 3 seconds after a reset.
C32_Witness ==
    /\ call.op = "IMUData.update"
    /\ hist.nupdates = 3
    /\ hist.reset_at > 0
    /\ clock - hist.reset_at < 3
    /\ IMUData_get_total_packets_lost(sk8._imus[0])
         > SumDropped(<<sk8._imus[0]._packet_metadata[1]>>)
    /\ SumDropped(<<sk8._imus[0]._packet_metadata[1]>>) > 0

\* The IMU-enable step of enable_extana_streaming fails for these arguments: the
\* sensors mask is 0, or one of the two selection characteristics is not found.
ImuStepFails(b, sensors) ==
    \/ sensors = 0
    \/ ~({"UUID_IMU_SELECTION", "UUID_SENSOR_SELECTION"} \subseteq b.chars)

\* C33: enable_extana_streaming returns a failure result and makes no ExtAna
\* notification subscription whenever its IMU-enable step fails (sensors mask 0,
\* or IMU selection characteristics not found); enabled_sensors is never 0 after
\* any sequence of enable calls.
C33_ExtanaFailsWithImuStep ==
    [][(call'.op = "enable_extana_streaming" /\ Before.is_connected
           /\ ImuStepFails(ble, call'.sensors))
          => /\ call'.r = "False"
             /\ \A k \in 1..Len(ble'.events) :
                  ble'.events[k] # <<"start_notify", "UUID_EXTANA_CCC", 0>>
             /\ get_enabled_sensors(sk8') # 0]_vars

\* The last operation read the hardware state from the device.
HardwareRead(b) ==
    \E k \in 1..Len(b.events) :
       b.events[k][1] = "read"
         /\ b.events[k][2] \in {"UUID_HARDWARE_STATE", "UUID_HARDWARE_STATE_TMP"}

\* C34: the hardware state is one cached optional value: has_extana / has_imus
\* with cached=True on a session where it has never been read query the device
\* and complete without error; after a successful read every later call with
\* cached=True answers from the cached value without another device read; a call
\* with cached=False always queries the device again.
C34_HardwareCachedOnce ==
    [][call'.op \in {"has_extana", "has_imus"}
          => LET bit == IF call'.op = "has_extana" THEN EXT_HW_EXTANA ELSE EXT_HW_IMUS
             IN /\ call'.r \in {"True", "False"}
                /\ (call'.flag /\ Before.hardware = <<>> /\ HardwareObtainable(ble))
                     => HardwareRead(ble') /\ sk8'.hardware = <<ble.hardware_state>>
                /\ (call'.flag /\ Before.hardware # <<>>)
                     => /\ ~HardwareRead(ble')
                        /\ sk8'.hardware = Before.hardware
                        /\ (call'.r = "True") <=> (NatAnd(Before.hardware[1], bit) = bit)
                /\ (~call'.flag /\ HardwareObtainable(ble))
                     => HardwareRead(ble') /\ sk8'.hardware = <<ble.hardware_state>>]_vars

====
